---- MODULE Spec2Model ----
(***************************************************************************)
(* Retail theft detection core (msmonroe/theft_detection): person tracker, *)
(* zone registry, rule evaluator, alert store and the per-frame            *)
(* orchestrator of src/src, as state machines.                             *)
(*                                                                         *)
(* Numbers.  Pixel coordinates are integers; a bounding-box centre is kept *)
(* doubled (2x + width) so that half-pixel centres stay exact.             *)
(* Confidences are kept in thousandths (0.6 is 600, 0.85 is 850).          *)
(* Timestamps are the value of a logical clock read by datetime.now().     *)
(***************************************************************************)
EXTENDS Integers, Sequences, FiniteSets, TLC

VARIABLES
    tracked_people,   \* PersonTracker._tracked_people, in dict (insertion) order
    next_person_id,   \* PersonTracker._next_person_id
    recent_alerts,    \* AlertManager._recent_alerts
    now,              \* the clock datetime.now() reads
    zones,            \* ZoneMonitor._zones
    call,             \* the last operation called, with its arguments
    ret,              \* what that operation returned or raised
    issued_ids,       \* history: every id _create_new_track has returned, in order
    created_alerts,   \* history: every alert create_alert has built, in order
    frame_log         \* history: how each analyze_frame call ended, in order

vars == <<tracked_people, next_person_id, recent_alerts, now, zones, call, ret,
          issued_ids, created_alerts, frame_log>>

(***************************************************************************)
(* config.py                                                               *)
(***************************************************************************)
MAX_TRACKING_DISTANCE_PIXELS == 100
DEFAULT_FPS == 30
POSITION_HISTORY_SIZE == 5
MAX_RECENT_ALERTS == 100
MIN_CONFIDENCE == 600
CONCEALMENT_CONFIDENCE == 700
MIN_POLYGON_VERTICES == 3
LOITERING_CONFIDENCE == 850
HIGH_VALUE_EXIT_CONFIDENCE_MULTIPLIER == 900

VALID_SEVERITY_LEVELS == {"LOW", "MEDIUM", "HIGH", "CRITICAL"}

(***************************************************************************)
(* Small helpers on sequences.                                             *)
(***************************************************************************)
Range(s) == {s[i] : i \in 1..Len(s)}

\* s[-k:] of Python for k >= 1
LastN(s, k) ==
    IF Len(s) <= k THEN s ELSE SubSeq(s, Len(s) - k + 1, Len(s))

\* s[start:] of Python: from index start when start >= 0 (-0 is 0), the
\* last -start elements when start < 0
SliceFrom(s, start) ==
    IF start >= 0
      THEN (IF start >= Len(s) THEN <<>> ELSE SubSeq(s, start + 1, Len(s)))
      ELSE (IF -start >= Len(s) THEN s ELSE SubSeq(s, Len(s) + start + 1, Len(s)))

\* int(c2 / 2): Python's int() truncates towards zero
TruncHalf(c2) == IF c2 >= 0 THEN c2 \div 2 ELSE -((-c2) \div 2)

(***************************************************************************)
(* Strings.  A string is compared by name; where the code looks inside a   *)
(* string (lower(), "in", join) the model works on its characters.         *)
(***************************************************************************)
\* the characters of each string the model uses
Chars(str) ==
    CASE str = "person" -> <<"p", "e", "r", "s", "o", "n">>
      [] str = "bag" -> <<"b", "a", "g">>
      [] str = "clothing" -> <<"c", "l", "o", "t", "h", "i", "n", "g">>
      [] str = "backpack" -> <<"b", "a", "c", "k", "p", "a", "c", "k">>
      [] str = "electronics" -> <<"e", "l", "e", "c", "t", "r", "o", "n", "i", "c", "s">>
      [] str = "reaching" -> <<"r", "e", "a", "c", "h", "i", "n", "g">>
      [] str = "Person" -> <<"P", "e", "r", "s", "o", "n">>
      [] str = "handbag" -> <<"h", "a", "n", "d", "b", "a", "g">>
      [] str = "laptop" -> <<"l", "a", "p", "t", "o", "p">>
      [] str = "phone" -> <<"p", "h", "o", "n", "e">>
      [] str = "tablet" -> <<"t", "a", "b", "l", "e", "t">>
      [] str = "camera" -> <<"c", "a", "m", "e", "r", "a">>
      [] str = "jewelry" -> <<"j", "e", "w", "e", "l", "r", "y">>
      [] str = "watch" -> <<"w", "a", "t", "c", "h">>
      [] str = "exit" -> <<"e", "x", "i", "t">>
      [] str = "unknown" -> <<"u", "n", "k", "n", "o", "w", "n">>
      [] str = "Laptop" -> <<"L", "a", "p", "t", "o", "p">>
      [] str = "shelf" -> <<"s", "h", "e", "l", "f">>
      [] str = "Checkout_Counter" -> <<"C", "h", "e", "c", "k", "o", "u", "t", "_", "C", "o", "u", "n", "t", "e", "r">>
      [] str = "Electronics_Display" -> <<"E", "l", "e", "c", "t", "r", "o", "n", "i", "c", "s", "_", "D", "i", "s", "p", "l", "a", "y">>
      [] str = "Exit_Zone" -> <<"E", "x", "i", "t", "_", "Z", "o", "n", "e">>
      [] str = "Employee_Storage" -> <<"E", "m", "p", "l", "o", "y", "e", "e", "_", "S", "t", "o", "r", "a", "g", "e">>
      [] str = "Electronics" -> <<"E", "l", "e", "c", "t", "r", "o", "n", "i", "c", "s">>

\* str.lower() on one character
LowerChar(c) ==
    CASE c = "C" -> "c"
      [] c = "D" -> "d"
      [] c = "E" -> "e"
      [] c = "L" -> "l"
      [] c = "P" -> "p"
      [] c = "S" -> "s"
      [] c = "Z" -> "z"
      [] OTHER -> c

\* str.lower()
Lower(chars) == [i \in 1..Len(chars) |-> LowerChar(chars[i])]

\* needle in haystack, on character sequences
IsSubstring(needle, haystack) ==
    \E i \in 0..(Len(haystack) - Len(needle)) :
        \A k \in 1..Len(needle) : haystack[i + k] = needle[k]

\* ' '.join(parts)
RECURSIVE JoinWithSpace(_)
JoinWithSpace(parts) ==
    IF parts = <<>> THEN <<>>
    ELSE IF Len(parts) = 1 THEN parts[1]
    ELSE parts[1] \o <<" ">> \o JoinWithSpace(Tail(parts))

\* f"{value:.0f}" for value = n / d with n >= 0: round half to even
FormatNoDecimals(n, d) ==
    LET q == n \div d
        r == n % d
    IN  IF 2 * r < d THEN q
        ELSE IF 2 * r > d THEN q + 1
        ELSE IF q % 2 = 0 THEN q ELSE q + 1

(***************************************************************************)
(* geometry_utils.py                                                       *)
(***************************************************************************)
BBox(x, y, w, h) == [x |-> x, y |-> y, width |-> w, height |-> h]

\* calculate_bounding_box_center, doubled: (2 * center_x, 2 * center_y)
calculate_bounding_box_center(bbox) ==
    <<2 * bbox.x + bbox.width, 2 * bbox.y + bbox.height>>

\* calculate_euclidean_distance on doubled points, squared:
\* 4 * ((x2 - x1)^2 + (y2 - y1)^2)
calculate_euclidean_distance(point1, point2) ==
    (point2[1] - point1[1]) * (point2[1] - point1[1])
      + (point2[2] - point1[2]) * (point2[2] - point1[2])

\* calculate_distance_between_boxes: 4 * distance^2 between the centres
calculate_distance_between_boxes(bbox1, bbox2) ==
    calculate_euclidean_distance(calculate_bounding_box_center(bbox1),
                                 calculate_bounding_box_center(bbox2))

\* distance < limit, for the squared doubled distance d4 (sqrt is monotone and
\* exact on these values)
DistanceBelow(d4, limit) == d4 < 4 * limit * limit

Min2(a, b) == IF a <= b THEN a ELSE b
Max2(a, b) == IF a >= b THEN a ELSE b

\* _is_point_on_ray without the test x <= max(p1x, p2x)
is_point_on_ray_unbounded(x, y, p1, p2) ==
    /\ y > Min2(p1[2], p2[2])
    /\ y <= Max2(p1[2], p2[2])
    /\ p1[2] # p2[2]
    /\ \/ p1[1] = p2[1]
       \/ IF p2[2] > p1[2]
            THEN (x - p1[1]) * (p2[2] - p1[2]) <= (y - p1[2]) * (p2[1] - p1[1])
            ELSE (x - p1[1]) * (p2[2] - p1[2]) >= (y - p1[2]) * (p2[1] - p1[1])

\* _is_point_on_ray: x <= xinters with
\* xinters = (y - p1y) * (p2x - p1x) / (p2y - p1y) + p1x, cross-multiplied
is_point_on_ray(x, y, p1, p2) ==
    /\ y > Min2(p1[2], p2[2])
    /\ y <= Max2(p1[2], p2[2])
    /\ x <= Max2(p1[1], p2[1])
    /\ p1[2] # p2[2]
    /\ \/ p1[1] = p2[1]
       \/ IF p2[2] > p1[2]
            THEN (x - p1[1]) * (p2[2] - p1[2]) <= (y - p1[2]) * (p2[1] - p1[1])
            ELSE (x - p1[1]) * (p2[2] - p1[2]) >= (y - p1[2]) * (p2[1] - p1[1])

\* the number of edges (polygon[i], polygon[(i + 1) % n]) the loop of
\* point_in_polygon toggles on; edges are taken by index, so an edge that
\* occurs twice counts twice
CrossingCount(point, polygon) ==
    LET n == Len(polygon)
    IN  Cardinality({i \in 1..n :
            is_point_on_ray(point[1], point[2], polygon[i], polygon[(i % n) + 1])})

point_in_polygon(point, polygon) ==
    IF Len(polygon) < 3 THEN FALSE
    ELSE CrossingCount(point, polygon) % 2 = 1

(***************************************************************************)
(* validators.py                                                           *)
(***************************************************************************)
\* validate_polygon without the minimum number of vertices
validate_polygon_nonempty(coordinates) == Len(coordinates) # 0

validate_polygon(coordinates) ==
    /\ Len(coordinates) # 0
    /\ Len(coordinates) >= MIN_POLYGON_VERTICES

\* TRUE when the validator raises ValidationError
validate_confidence_score_raises(confidence) ==
    ~(0 <= confidence /\ confidence <= 1000)

validate_severity_level_raises(severity) ==
    severity \notin VALID_SEVERITY_LEVELS

(***************************************************************************)
(* zone_monitor.py                                                         *)
(***************************************************************************)
DetectionZone(name, coordinates, is_restricted, alert_on_loitering, max_loiter_seconds) ==
    [name |-> name, coordinates |-> coordinates, is_restricted |-> is_restricted,
     alert_on_loitering |-> alert_on_loitering,
     max_loiter_seconds |-> max_loiter_seconds]

contains_point(zone, x, y) == point_in_polygon(<<x, y>>, zone.coordinates)

NoZone == [name |-> "None"]

\* DetectionZone.__post_init__: TRUE when it raises ValueError
detection_zone_raises(coordinates) == ~validate_polygon(coordinates)

\* ZoneMonitor.add_zone
add_zone(zs, zone) == Append(zs, zone)

\* get_all_zones returning the registry's own list
get_all_zones_uncopied(zs) == [list |-> zs, is_registry_list |-> TRUE]

\* ZoneMonitor.get_all_zones: self._zones.copy(), a new list of the same zones
get_all_zones(zs) == [list |-> zs, is_registry_list |-> FALSE]

\* find_zone_for_point returning the last zone that contains the point
find_zone_for_point_last(zs, x, y) ==
    LET hits == {i \in 1..Len(zs) : contains_point(zs[i], x, y)}
    IN  IF hits = {} THEN NoZone
        ELSE zs[CHOOSE i \in hits : \A j \in hits : i >= j]

\* the first zone, in registration order, that contains the point
find_zone_for_point(zs, x, y) ==
    LET hits == {i \in 1..Len(zs) : contains_point(zs[i], x, y)}
    IN  IF hits = {} THEN NoZone
        ELSE zs[CHOOSE i \in hits : \A j \in hits : i <= j]

find_zone_for_bounding_box(zs, bounding_box) ==
    LET c == calculate_bounding_box_center(bounding_box)
    IN  find_zone_for_point(zs, TruncHalf(c[1]), TruncHalf(c[2]))

(***************************************************************************)
(* person_tracker.py                                                       *)
(***************************************************************************)
PersonId(n) == <<"person_", n>>

PersonTrackingData(person_id, first_frame, last_frame, position_history) ==
    [person_id |-> person_id, first_frame |-> first_frame,
     last_frame |-> last_frame, position_history |-> position_history]

\* add_position keeping the oldest positions instead of the newest
add_position_keep_oldest(data, position, frame_number) ==
    LET appended == Append(data.position_history, position)
    IN  [data EXCEPT
           !.last_frame = frame_number,
           !.position_history =
               IF Len(appended) > POSITION_HISTORY_SIZE
                 THEN SubSeq(appended, 1, POSITION_HISTORY_SIZE)
                 ELSE appended]

\* add_position leaving last_frame as it was
add_position_stale_frame(data, position, frame_number) ==
    LET appended == Append(data.position_history, position)
    IN  [data EXCEPT
           !.position_history =
               IF Len(appended) > POSITION_HISTORY_SIZE
                 THEN LastN(appended, POSITION_HISTORY_SIZE)
                 ELSE appended]

\* PersonTrackingData.add_position
add_position(data, position, frame_number) ==
    LET appended == Append(data.position_history, position)
    IN  [data EXCEPT
           !.last_frame = frame_number,
           !.position_history =
               IF Len(appended) > POSITION_HISTORY_SIZE
                 THEN LastN(appended, POSITION_HISTORY_SIZE)
                 ELSE appended]

\* frames_present of calculate_dwell_time; the dwell time is frames / fps
\* calculate_dwell_time counting the first and the current frame both
calculate_dwell_frames_both_ends(data, current_frame) ==
    current_frame - data.first_frame + 1

calculate_dwell_frames(data, current_frame) == current_frame - data.first_frame

\* _find_matching_track with "distance <= MAX_TRACKING_DISTANCE_PIXELS"
TrackMatchesInclusive(data, bounding_box, frame_number) ==
    /\ data.last_frame = frame_number - 1
    /\ Len(data.position_history) > 0
    /\ calculate_distance_between_boxes(
           bounding_box, data.position_history[Len(data.position_history)])
         <= 4 * MAX_TRACKING_DISTANCE_PIXELS * MAX_TRACKING_DISTANCE_PIXELS

\* _find_matching_track accepting a track last seen in any earlier frame
TrackMatchesAnyEarlierFrame(data, bounding_box, frame_number) ==
    /\ data.last_frame <= frame_number - 1
    /\ Len(data.position_history) > 0
    /\ DistanceBelow(
         calculate_distance_between_boxes(
             bounding_box, data.position_history[Len(data.position_history)]),
         MAX_TRACKING_DISTANCE_PIXELS)

\* the test of one track in the loop of _find_matching_track
TrackMatches(data, bounding_box, frame_number) ==
    /\ data.last_frame = frame_number - 1
    /\ Len(data.position_history) > 0
    /\ DistanceBelow(
         calculate_distance_between_boxes(
             bounding_box, data.position_history[Len(data.position_history)]),
         MAX_TRACKING_DISTANCE_PIXELS)

\* index of the matching track in dict order, 0 for None
find_matching_track(people, bounding_box, frame_number) ==
    LET hits == {i \in 1..Len(people) : TrackMatches(people[i], bounding_box, frame_number)}
    IN  IF hits = {} THEN 0
        ELSE CHOOSE i \in hits : \A j \in hits : i <= j

\* the tracker is the pair (people, next id); track_person returns the new
\* tracker, the person id and whether a track was matched
Tracker(people, next_id) == [people |-> people, next_id |-> next_id]

\* _create_new_track numbering the id by the size of the dict, as
\* RetailTheftDetector._track_person of src/retail_theft_detection.py does
create_new_track_by_size(tr, bounding_box, frame_number) ==
    [tracker |-> Tracker(
         Append(tr.people,
                PersonTrackingData(PersonId(Len(tr.people)), frame_number, frame_number,
                                   <<bounding_box>>)),
         tr.next_id + 1),
     person_id |-> PersonId(Len(tr.people)),
     matched |-> FALSE]

\* _create_new_track keeping only the new track
create_new_track_alone(tr, bounding_box, frame_number) ==
    [tracker |-> Tracker(
         <<PersonTrackingData(PersonId(tr.next_id), frame_number, frame_number,
                              <<bounding_box>>)>>,
         tr.next_id + 1),
     person_id |-> PersonId(tr.next_id),
     matched |-> FALSE]

create_new_track(tr, bounding_box, frame_number) ==
    [tracker |-> Tracker(
         Append(tr.people,
                PersonTrackingData(PersonId(tr.next_id), frame_number, frame_number,
                                   <<bounding_box>>)),
         tr.next_id + 1),
     person_id |-> PersonId(tr.next_id),
     matched |-> FALSE]

update_track(tr, i, bounding_box, frame_number) ==
    [tracker |-> Tracker(
         [tr.people EXCEPT ![i] = add_position(@, bounding_box, frame_number)],
         tr.next_id),
     person_id |-> tr.people[i].person_id,
     matched |-> TRUE]

track_person(tr, bounding_box, frame_number) ==
    LET i == find_matching_track(tr.people, bounding_box, frame_number)
    IN  IF i = 0 THEN create_new_track(tr, bounding_box, frame_number)
        ELSE update_track(tr, i, bounding_box, frame_number)

\* index of person_id in the dict, 0 when absent (get_tracking_data gives None)
get_tracking_data(people, person_id) ==
    LET hits == {i \in 1..Len(people) : people[i].person_id = person_id}
    IN  IF hits = {} THEN 0 ELSE CHOOSE i \in hits : TRUE

RECURSIVE SelectTracks(_, _, _)
SelectTracks(people, current_frame, max_age_frames) ==
    IF people = <<>> THEN <<>>
    ELSE LET rest == SelectTracks(Tail(people), current_frame, max_age_frames)
         IN  IF current_frame - Head(people).last_frame > max_age_frames
               THEN rest
               ELSE <<Head(people)>> \o rest

\* cleanup_old_tracks removing a track whose age equals max_age_frames too
cleanup_old_tracks_inclusive(people, current_frame, max_age_frames) ==
    SelectTracks(people, current_frame, max_age_frames - 1)

cleanup_old_tracks(people, current_frame, max_age_frames) ==
    SelectTracks(people, current_frame, max_age_frames)

(***************************************************************************)
(* alert_manager.py                                                        *)
(***************************************************************************)
TheftAlert(timestamp, alert_type, confidence, location, description, image_path, bounding_boxes, severity) ==
    [timestamp |-> timestamp, alert_type |-> alert_type, confidence |-> confidence,
     location |-> location, description |-> description, image_path |-> image_path,
     bounding_boxes |-> bounding_boxes, severity |-> severity]

\* TheftAlert.__post_init__: TRUE when it raises ValidationError
post_init_raises(confidence, severity) ==
    validate_severity_level_raises(severity) \/ validate_confidence_score_raises(confidence)

\* AlertManager._add_alert keeping the first MAX_RECENT_ALERTS alerts
add_alert_keep_oldest(alerts, alert) ==
    LET appended == Append(alerts, alert)
    IN  IF Len(appended) > MAX_RECENT_ALERTS
          THEN SubSeq(appended, 1, MAX_RECENT_ALERTS)
          ELSE appended

\* AlertManager._add_alert
add_alert(alerts, alert) ==
    LET appended == Append(alerts, alert)
    IN  IF Len(appended) > MAX_RECENT_ALERTS
          THEN LastN(appended, MAX_RECENT_ALERTS)
          ELSE appended

\* the alert manager is the pair (stored alerts, clock)
AlertStore(alerts, clock) == [alerts |-> alerts, clock |-> clock]

\* AlertManager.create_alert storing the alert before TheftAlert validates it
create_alert_store_first(am, alert_type, confidence, location, description, image_path, bounding_boxes, severity) ==
    LET alert == TheftAlert(am.clock, alert_type, confidence, location, description,
                            image_path, bounding_boxes, severity)
    IN  [raised |-> post_init_raises(confidence, severity),
         am |-> AlertStore(add_alert(am.alerts, alert), am.clock + 1),
         alert |-> alert]

\* AlertManager.create_alert: the new manager, whether ValidationError was
\* raised, and the alert returned
create_alert(am, alert_type, confidence, location, description, image_path, bounding_boxes, severity) ==
    LET alert == TheftAlert(am.clock, alert_type, confidence, location, description,
                            image_path, bounding_boxes, severity)
    IN  IF post_init_raises(confidence, severity)
          THEN [raised |-> TRUE, am |-> AlertStore(am.alerts, am.clock + 1)]
          ELSE [raised |-> FALSE,
                am |-> AlertStore(add_alert(am.alerts, alert), am.clock + 1),
                alert |-> alert]

\* datetime.isoformat(): the text of a timestamp
IsoFormat(timestamp) == <<"isoformat", timestamp>>

\* TheftAlert.to_dict: asdict(self), with the timestamp as text
to_dict(alert) == [alert EXCEPT !.timestamp = IsoFormat(alert.timestamp)]

\* _count_alerts_by_type giving each type present the count 1
count_alerts_by_type_presence(alerts) ==
    [t \in {alerts[i].alert_type : i \in 1..Len(alerts)} |-> 1]

\* AlertManager._count_alerts_by_type: a dict with a key for each type present
count_alerts_by_type(alerts) ==
    [t \in {alerts[i].alert_type : i \in 1..Len(alerts)} |->
        Cardinality({i \in 1..Len(alerts) : alerts[i].alert_type = t})]

\* AlertManager._count_alerts_by_severity
count_alerts_by_severity(alerts) ==
    [v \in {alerts[i].severity : i \in 1..Len(alerts)} |->
        Cardinality({i \in 1..Len(alerts) : alerts[i].severity = v})]

\* AlertManager._build_report, for the store am = [alerts, clock]
build_report(am) ==
    [generated |-> IsoFormat(am.clock),
     total_alerts |-> Len(am.alerts),
     by_type |-> count_alerts_by_type(am.alerts),
     by_severity |-> count_alerts_by_severity(am.alerts),
     alerts |-> [i \in 1..Len(am.alerts) |-> to_dict(am.alerts[i])]]

\* the count argument of get_recent_alerts: None, or an int
NoCount == [given |-> FALSE]
Count(value) == [given |-> TRUE, value |-> value]

\* AlertManager.get_recent_alerts: the list returned, and whether it is the
\* store's own list object
get_recent_alerts(alerts, count) ==
    IF ~count.given
      THEN [alerts |-> alerts, is_store_list |-> FALSE]
      ELSE [alerts |-> SliceFrom(alerts, -count.value), is_store_list |-> FALSE]

(***************************************************************************)
(* behavior_analyzer.py                                                    *)
(***************************************************************************)
HIGH_VALUE_ITEMS ==
    <<"laptop", "phone", "tablet", "camera", "jewelry", "watch", "electronics">>

SUSPICIOUS_PATTERNS ==
    << [tags |-> <<"person", "bag", "clothing">>,
        description |-> "Person with bag near clothing"],
       [tags |-> <<"person", "backpack", "electronics">>,
        description |-> "Person with backpack near electronics"],
       [tags |-> <<"person", "reaching">>,
        description |-> "Person reaching for items"] >>

analyze_object_for_high_value(object_name, zone_name) ==
    LET is_high_value ==
            \E i \in 1..Len(HIGH_VALUE_ITEMS) :
                IsSubstring(Chars(HIGH_VALUE_ITEMS[i]), Lower(Chars(object_name)))
        is_near_exit == IsSubstring(Chars("exit"), Lower(Chars(zone_name)))
    IN  is_high_value /\ is_near_exit

\* all(tag in normalized_tags for tag in pattern_tags)
PatternPresent(pattern_tags, normalized_tags) ==
    \A k \in 1..Len(pattern_tags) : IsSubstring(Chars(pattern_tags[k]), normalized_tags)

\* the descriptions of the patterns that are present, in the order of
\* SUSPICIOUS_PATTERNS
RECURSIVE PresentPatterns(_, _)
PresentPatterns(patterns, normalized_tags) ==
    IF patterns = <<>> THEN <<>>
    ELSE (IF PatternPresent(Head(patterns).tags, normalized_tags)
            THEN <<Head(patterns).description>> ELSE <<>>)
         \o PresentPatterns(Tail(patterns), normalized_tags)

\* a tag whose name is None: tag.lower() raises AttributeError
NoneName == "<None>"

detect_concealment_patterns_raises(tags) == \E i \in 1..Len(tags) : tags[i] = NoneName

\* BehaviorAnalyzer.detect_concealment_patterns: the description of the first
\* pattern present, as a list of at most one description (None is <<>>)
detect_concealment_patterns(tags) ==
    LET normalized_tags ==
            JoinWithSpace([i \in 1..Len(tags) |-> Lower(Chars(tags[i]))])
        present == PresentPatterns(SUSPICIOUS_PATTERNS, normalized_tags)
    IN  IF present = <<>> THEN <<>> ELSE <<present[1]>>

\* should_alert_for_loitering with "dwell_time >= max_loiter_seconds"
should_alert_for_loitering_inclusive(tracking_data, current_frame, max_loiter_seconds) ==
    calculate_dwell_frames(tracking_data, current_frame) >= max_loiter_seconds * DEFAULT_FPS

\* dwell_time > max_loiter_seconds with dwell_time = frames / DEFAULT_FPS
should_alert_for_loitering(tracking_data, current_frame, max_loiter_seconds) ==
    calculate_dwell_frames(tracking_data, current_frame) > max_loiter_seconds * DEFAULT_FPS

\* calculate_confidence_for_high_value_exit returning base_confidence itself
calculate_confidence_for_high_value_exit_unscaled(base_confidence) == base_confidence

\* base_confidence * 0.9, in thousandths (exact for the multiples of 0.01
\* the inputs are)
calculate_confidence_for_high_value_exit(base_confidence) ==
    (base_confidence * HIGH_VALUE_EXIT_CONFIDENCE_MULTIPLIER) \div 1000

(***************************************************************************)
(* detection_orchestrator.py                                               *)
(*                                                                         *)
(* A rule check returns the alert manager after it, whether an exception   *)
(* left it, and the alert it returned (a list of none or one).             *)
(***************************************************************************)
NoAlert(am) == [am |-> am, raised |-> FALSE, out |-> <<>>]

Created(r) ==
    [am |-> r.am, raised |-> r.raised, out |-> IF r.raised THEN <<>> ELSE <<r.alert>>]

\* _check_restricted_area_violation reporting a fixed confidence
check_restricted_area_violation_fixed(am, zone, bounding_box, confidence, image_path) ==
    IF ~zone.is_restricted THEN NoAlert(am)
    ELSE Created(create_alert(am, "RESTRICTED_AREA_VIOLATION", LOITERING_CONFIDENCE,
                              zone.name, <<"Unauthorized person in ", zone.name>>,
                              image_path, <<bounding_box>>, "CRITICAL"))

check_restricted_area_violation(am, zone, bounding_box, confidence, image_path) ==
    IF ~zone.is_restricted THEN NoAlert(am)
    ELSE Created(create_alert(am, "RESTRICTED_AREA_VIOLATION", confidence, zone.name,
                              <<"Unauthorized person in ", zone.name>>, image_path,
                              <<bounding_box>>, "CRITICAL"))

check_loitering_violation(am, people, zone, person_id, bounding_box, frame_number, image_path) ==
    IF ~zone.alert_on_loitering THEN NoAlert(am)
    ELSE LET i == get_tracking_data(people, person_id)
         IN  IF i = 0 THEN NoAlert(am)
             ELSE IF ~should_alert_for_loitering(people[i], frame_number,
                                                 zone.max_loiter_seconds)
               THEN NoAlert(am)
             ELSE Created(create_alert(
                      am, "LOITERING", LOITERING_CONFIDENCE, zone.name,
                      <<"Person loitering ",
                        FormatNoDecimals(calculate_dwell_frames(people[i], frame_number),
                                         DEFAULT_FPS),
                        "s in ", zone.name>>,
                      image_path, <<bounding_box>>, "MEDIUM"))

check_high_value_at_exit(am, object_name, zone, bounding_box, confidence, image_path) ==
    IF ~analyze_object_for_high_value(object_name, zone.name) THEN NoAlert(am)
    ELSE Created(create_alert(am, "UNPAID_ITEM_AT_EXIT",
                              calculate_confidence_for_high_value_exit(confidence),
                              zone.name, <<"High-value ", object_name, " detected at exit">>,
                              image_path, <<bounding_box>>, "HIGH"))

\* the state a frame's analysis threads through its steps: the tracker, the
\* alert manager, the alerts collected so far, whether an exception is on its
\* way out, and (for observation only) what track_person answered for each
\* person so far
Ctx(tracker, am, alerts, raised, tracked) ==
    [tracker |-> tracker, am |-> am, alerts |-> alerts, raised |-> raised,
     tracked |-> tracked]

\* analyze_person appending the loitering alert before the restricted-area one
analyze_person_loitering_first(ctx, zs, person, image_path, frame_number) ==
    LET bounding_box == person.bounding_box
        t == track_person(ctx.tracker, bounding_box, frame_number)
        zone == find_zone_for_bounding_box(zs, bounding_box)
        tracked == Append(ctx.tracked, [person_id |-> t.person_id, matched |-> t.matched])
    IN  IF zone = NoZone THEN Ctx(t.tracker, ctx.am, ctx.alerts, FALSE, tracked)
        ELSE LET a == check_restricted_area_violation(ctx.am, zone, bounding_box,
                                                      person.confidence, image_path)
             IN  IF a.raised THEN Ctx(t.tracker, a.am, ctx.alerts, TRUE, tracked)
                 ELSE LET b == check_loitering_violation(
                                   a.am, t.tracker.people, zone, t.person_id,
                                   bounding_box, frame_number, image_path)
                      IN  Ctx(t.tracker, b.am, ctx.alerts \o b.out \o a.out, b.raised,
                              tracked)

\* one iteration of the loop of _analyze_people
analyze_person(ctx, zs, person, image_path, frame_number) ==
    LET bounding_box == person.bounding_box
        t == track_person(ctx.tracker, bounding_box, frame_number)
        zone == find_zone_for_bounding_box(zs, bounding_box)
        tracked == Append(ctx.tracked, [person_id |-> t.person_id, matched |-> t.matched])
    IN  IF zone = NoZone THEN Ctx(t.tracker, ctx.am, ctx.alerts, FALSE, tracked)
        ELSE LET a == check_restricted_area_violation(ctx.am, zone, bounding_box,
                                                      person.confidence, image_path)
             IN  IF a.raised THEN Ctx(t.tracker, a.am, ctx.alerts, TRUE, tracked)
                 ELSE LET b == check_loitering_violation(
                                   a.am, t.tracker.people, zone, t.person_id,
                                   bounding_box, frame_number, image_path)
                      IN  Ctx(t.tracker, b.am, ctx.alerts \o a.out \o b.out, b.raised,
                              tracked)

RECURSIVE analyze_people_loop(_, _, _, _, _)
analyze_people_loop(ctx, zs, people, image_path, frame_number) ==
    IF ctx.raised \/ people = <<>> THEN ctx
    ELSE analyze_people_loop(analyze_person(ctx, zs, Head(people), image_path, frame_number),
                             zs, Tail(people), image_path, frame_number)

\* _analyze_people; ctx.alerts is its local list
analyze_people(ctx, zs, result, image_path, frame_number) ==
    IF ~result.people.present THEN ctx
    ELSE analyze_people_loop(ctx, zs, result.people.list, image_path, frame_number)

\* one iteration of the loop of _analyze_objects
analyze_object(ctx, zs, obj, image_path) ==
    LET obj_name == IF obj.tags # <<>> THEN obj.tags[1].name ELSE "unknown"
        confidence == IF obj.tags # <<>> THEN obj.tags[1].confidence ELSE 0
        zone == find_zone_for_bounding_box(zs, obj.bounding_box)
    IN  IF confidence < MIN_CONFIDENCE THEN ctx
        ELSE IF zone = NoZone THEN ctx
        ELSE LET a == check_high_value_at_exit(ctx.am, obj_name, zone, obj.bounding_box,
                                               confidence, image_path)
             IN  Ctx(ctx.tracker, a.am, ctx.alerts \o a.out, a.raised, ctx.tracked)

RECURSIVE analyze_objects_loop(_, _, _, _)
analyze_objects_loop(ctx, zs, objects, image_path) ==
    IF ctx.raised \/ objects = <<>> THEN ctx
    ELSE analyze_objects_loop(analyze_object(ctx, zs, Head(objects), image_path),
                              zs, Tail(objects), image_path)

analyze_objects(ctx, zs, result, image_path) ==
    IF ~result.objects.present THEN ctx
    ELSE analyze_objects_loop(ctx, zs, result.objects.list, image_path)

\* the list comprehension of _analyze_behavior_patterns
RECURSIVE HighConfidenceTags(_)
HighConfidenceTags(tag_list) ==
    IF tag_list = <<>> THEN <<>>
    ELSE (IF Head(tag_list).confidence > MIN_CONFIDENCE
            THEN <<Head(tag_list).name>> ELSE <<>>)
         \o HighConfidenceTags(Tail(tag_list))

analyze_behavior_patterns(ctx, result, image_path, frame_number) ==
    IF ~result.tags.present THEN ctx
    ELSE LET tags == HighConfidenceTags(result.tags.list)
             pattern_description == detect_concealment_patterns(tags)
         IN  IF detect_concealment_patterns_raises(tags) THEN [ctx EXCEPT !.raised = TRUE]
             ELSE IF pattern_description = <<>> THEN ctx
             ELSE LET a == Created(create_alert(
                               ctx.am, "CONCEALMENT_PATTERN", CONCEALMENT_CONFIDENCE,
                               "Unknown", pattern_description[1], image_path, <<>>,
                               "MEDIUM"))
                  IN  Ctx(ctx.tracker, a.am, ctx.alerts \o a.out, a.raised, ctx.tracked)

\* the body of the try block of analyze_frame; the three local lists are
\* collected in ctx.alerts, in the order they are concatenated
analyze_frame_body(ctx, zs, result, image_path, frame_number) ==
    IF result.vision_raises THEN [ctx EXCEPT !.raised = TRUE]
    ELSE LET p == analyze_people(ctx, zs, result, image_path, frame_number)
         IN  IF p.raised THEN p
             ELSE LET o == analyze_objects(p, zs, result, image_path)
                  IN  IF o.raised THEN o
                      ELSE analyze_behavior_patterns(o, result, image_path, frame_number)

\* analyze_frame without its except clause
analyze_frame_propagating(tracker, am, zs, result, image_path, frame_number) ==
    LET c == analyze_frame_body(Ctx(tracker, am, <<>>, FALSE, <<>>), zs, result, image_path,
                                frame_number)
    IN  [tracker |-> c.tracker, am |-> c.am, made |-> c.alerts, tracked |-> c.tracked,
         propagated |-> c.raised, caught |-> FALSE,
         alerts |-> IF c.raised THEN <<>> ELSE c.alerts]

\* DetectionOrchestrator.analyze_frame: the components after the call, the
\* list returned, whether the except clause ran, and whether an exception
\* reached the caller; made lists the alerts created on the way
analyze_frame(tracker, am, zs, result, image_path, frame_number) ==
    LET c == analyze_frame_body(Ctx(tracker, am, <<>>, FALSE, <<>>), zs, result, image_path,
                                frame_number)
    IN  [tracker |-> c.tracker, am |-> c.am, made |-> c.alerts, tracked |-> c.tracked,
         propagated |-> FALSE, caught |-> c.raised,
         alerts |-> IF c.raised THEN <<>> ELSE c.alerts]

(***************************************************************************)
(* Bounds of the tracker model.                                            *)
(***************************************************************************)
MaxFrame == 1
MaxPersons == 2
MaxAge == 0

\* (100,100,50,100) is the first box of test_track_person; (200,100,50,100)
\* is exactly 100 px from it, and (199,100,51,100) is 99.5 px from it (a
\* half-pixel centre) and 0.5 px from the second
TrackerBoxes ==
    {BBox(100, 100, 50, 100), BBox(200, 100, 50, 100), BBox(199, 100, 51, 100)}

NoCall == [op |-> "init"]
NoRet == [kind |-> "none"]

Init ==
    /\ tracked_people = <<>>
    /\ next_person_id = 0
    /\ recent_alerts = <<>>
    /\ now = 0
    /\ zones = <<>>
    /\ call = NoCall
    /\ ret = NoRet
    /\ issued_ids = <<>>
    /\ created_alerts = <<>>
    /\ frame_log = <<>>

(***************************************************************************)
(* PersonTracker called directly.                                          *)
(***************************************************************************)
TrackPerson(bounding_box, frame_number) ==
    LET r == track_person(Tracker(tracked_people, next_person_id),
                          bounding_box, frame_number)
    IN  /\ r.matched \/ next_person_id < MaxPersons
        /\ tracked_people' = r.tracker.people
        /\ next_person_id' = r.tracker.next_id
        /\ issued_ids' = IF r.matched THEN issued_ids
                         ELSE Append(issued_ids, r.person_id)
        /\ call' = [op |-> "track_person", bounding_box |-> bounding_box,
                    frame_number |-> frame_number]
        /\ ret' = [kind |-> "person_id", person_id |-> r.person_id,
                   matched |-> r.matched]
        /\ UNCHANGED <<recent_alerts, now, zones, created_alerts, frame_log>>

CleanupOldTracks(current_frame, max_age_frames) ==
    /\ tracked_people' = cleanup_old_tracks(tracked_people, current_frame, max_age_frames)
    /\ call' = [op |-> "cleanup_old_tracks", current_frame |-> current_frame,
                max_age_frames |-> max_age_frames]
    /\ ret' = NoRet
    /\ UNCHANGED <<next_person_id, recent_alerts, now, zones, issued_ids, created_alerts,
                   frame_log>>

TrackerTrack == \E b \in TrackerBoxes, f \in 0..MaxFrame : TrackPerson(b, f)
TrackerCleanup == \E f \in 0..MaxFrame : CleanupOldTracks(f, MaxAge)

NextTracker == TrackerTrack \/ TrackerCleanup

SpecTracker == Init /\ [][NextTracker]_vars

(***************************************************************************)
(* C1.  track_person(bbox, f) returns the id of an existing track exactly  *)
(* when some track has last_frame = f - 1 and the centre of its last       *)
(* position is strictly less than 100 px from the centre of bbox; the      *)
(* first such track in dict order is the one returned and updated;         *)
(* otherwise a new track is appended and its id returned.                  *)
(***************************************************************************)
\* 4 * (squared distance between the centres (x + w/2, y + h/2))
CentreGap4(a, b) ==
    ((2 * a.x + a.width) - (2 * b.x + b.width)) * ((2 * a.x + a.width) - (2 * b.x + b.width))
      + ((2 * a.y + a.height) - (2 * b.y + b.height))
          * ((2 * a.y + a.height) - (2 * b.y + b.height))

Qualifies(t, bbox, f) ==
    /\ t.last_frame = f - 1
    /\ CentreGap4(t.position_history[Len(t.position_history)], bbox) < 4 * 100 * 100

TrackIds(people) == {people[i].person_id : i \in 1..Len(people)}

C1_Step ==
    call'.op = "track_person" =>
        LET b == call'.bounding_box
            f == call'.frame_number
            Q == {i \in 1..Len(tracked_people) : Qualifies(tracked_people[i], b, f)}
        IN  /\ (ret'.person_id \in TrackIds(tracked_people)) <=> (Q # {})
            /\ Q # {} =>
                 LET first == CHOOSE i \in Q : \A j \in Q : i <= j
                 IN  /\ ret'.person_id = tracked_people[first].person_id
                     /\ Len(tracked_people') = Len(tracked_people)
                     /\ tracked_people'[first].last_frame = f
                     /\ \A j \in 1..Len(tracked_people) :
                          j # first => tracked_people'[j] = tracked_people[j]
            /\ Q = {} =>
                 /\ Len(tracked_people') = Len(tracked_people) + 1
                 /\ tracked_people'[Len(tracked_people')].person_id = ret'.person_id
                 /\ SubSeq(tracked_people', 1, Len(tracked_people)) = tracked_people

C1_TrackMatchesPreviousFrameWithin100 == [][C1_Step]_vars

\* two tracks qualified (one at 99.5 px, a half-pixel centre) and the earlier
\* one was returned; the later one still waits at frame f - 1
C1_Witness ==
    /\ call.op = "track_person"
    /\ ret.matched
    /\ \E i, j \in 1..Len(tracked_people) :
         /\ i < j
         /\ tracked_people[i].person_id = ret.person_id
         /\ tracked_people[i].last_frame = call.frame_number
         /\ Qualifies(tracked_people[j], call.bounding_box, call.frame_number)
         /\ CentreGap4(tracked_people[j].position_history[1], call.bounding_box) = 4 * 9900 + 1

(***************************************************************************)
(* C8.  A track created by track_person has first_frame = last_frame =     *)
(* frame_number and history [bbox]; its id person_<n> has n larger than    *)
(* that of every id issued before, so no id is issued twice, removed       *)
(* tracks included.                                                        *)
(***************************************************************************)
C8_NewTrackAndFreshIds ==
    /\ \A i, j \in 1..Len(issued_ids) :
         i < j => /\ issued_ids[i][1] = "person_"
                  /\ issued_ids[j][1] = "person_"
                  /\ issued_ids[i][2] < issued_ids[j][2]
    /\ (call.op = "track_person" /\ ~ret.matched) =>
         /\ issued_ids # <<>>
         /\ ret.person_id = issued_ids[Len(issued_ids)]
         /\ tracked_people # <<>>
         /\ tracked_people[Len(tracked_people)] =
              [person_id |-> ret.person_id, first_frame |-> call.frame_number,
               last_frame |-> call.frame_number,
               position_history |-> <<call.bounding_box>>]
         /\ \A i \in 1..(Len(tracked_people) - 1) :
              tracked_people[i].person_id # ret.person_id

\* a track was created after an earlier track had been removed
C8_Witness ==
    /\ call.op = "track_person"
    /\ ~ret.matched
    /\ Len(issued_ids) = 2
    /\ Len(tracked_people) = 1

(***************************************************************************)
(* AlertManager called directly.                                           *)
(***************************************************************************)
MaxAlertCalls == 2
MaxCreates == 105
MaxVaried == 2

CreateAlert(alert_type, confidence, location, description, image_path, bounding_boxes, severity) ==
    LET r == create_alert(AlertStore(recent_alerts, now), alert_type, confidence,
                          location, description, image_path, bounding_boxes, severity)
    IN  /\ recent_alerts' = r.am.alerts
        /\ now' = r.am.clock
        /\ created_alerts' = IF r.raised THEN created_alerts
                             ELSE Append(created_alerts, r.alert)
        /\ call' = [op |-> "create_alert", alert_type |-> alert_type,
                    confidence |-> confidence, severity |-> severity]
        /\ ret' = IF r.raised THEN [kind |-> "raised"]
                  ELSE [kind |-> "alert", alert |-> r.alert]
        /\ UNCHANGED <<tracked_people, next_person_id, zones, issued_ids, frame_log>>

AlertTypeInputs == {"LOITERING", "CONCEALMENT_PATTERN", "TAILGATING"}
ConfidenceInputs == {-1, 0, 1000, 1001}
SeverityInputs == {"MEDIUM", "CRITICAL", "URGENT"}

AlertsCreate ==
    /\ now < MaxAlertCalls
    /\ \E t \in AlertTypeInputs, c \in ConfidenceInputs, s \in SeverityInputs :
         CreateAlert(t, c, "Exit_Zone", "description", "frame.jpg", <<>>, s)

NextAlerts == AlertsCreate

SpecAlerts == Init /\ [][NextAlerts]_vars

\* a long run of valid alerts, to fill the store past its cap; the type varies
\* in the first MaxVaried calls
CapCreate ==
    /\ now < MaxCreates
    /\ \E t \in IF now < MaxVaried THEN {"LOITERING", "CONCEALMENT_PATTERN"}
                ELSE {"LOITERING"} :
         CreateAlert(t, LOITERING_CONFIDENCE, "Exit_Zone", "description", "frame.jpg",
                     <<>>, "MEDIUM")

NextAlertCap == CapCreate

SpecAlertCap == Init /\ [][NextAlertCap]_vars

(***************************************************************************)
(* C2.  The store holds at most 100 alerts, and they are exactly the most  *)
(* recently created min(n, 100) alerts, in creation order.                 *)
(***************************************************************************)
C2_StoreKeepsLast100 ==
    LET n == Len(created_alerts)
        k == IF n < 100 THEN n ELSE 100
    IN  /\ Len(recent_alerts) <= 100
        /\ Len(recent_alerts) = k
        /\ \A i \in 1..k : recent_alerts[i] = created_alerts[n - k + i]

\* 105 alerts were created: the first five are gone
C2_Witness ==
    /\ Len(created_alerts) = 105
    /\ Len(recent_alerts) = 100
    /\ recent_alerts[1] = created_alerts[6]
    /\ recent_alerts[1] # created_alerts[1]

(***************************************************************************)
(* C7.  create_alert with a confidence outside [0.0, 1.0] or a severity    *)
(* outside {LOW, MEDIUM, HIGH, CRITICAL} raises, and the store then holds  *)
(* exactly the alerts it held before the call.                             *)
(***************************************************************************)
C7_Step ==
    (/\ call'.op = "create_alert"
     /\ \/ call'.confidence < 0
        \/ call'.confidence > 1000
        \/ call'.severity \notin {"LOW", "MEDIUM", "HIGH", "CRITICAL"})
    => /\ ret'.kind = "raised"
       /\ recent_alerts' = recent_alerts

C7_InvalidAlertRaisesAndIsNotStored == [][C7_Step]_vars

\* a call with confidence 1.001 raised while the store held an alert
C7_Witness ==
    /\ call.op = "create_alert"
    /\ call.confidence = 1001
    /\ call.severity = "MEDIUM"
    /\ ret.kind = "raised"
    /\ Len(recent_alerts) = 1

(***************************************************************************)
(* DetectionOrchestrator.analyze_frame called on a configured store.       *)
(***************************************************************************)
MaxAnalyses == 2

Rect(x1, y1, x2, y2) == <<(<<x1, y1>>), (<<x2, y1>>), (<<x2, y2>>), (<<x1, y2>>)>>

\* the four zones of DefaultZones.get_default_zones, with loitering limits a
\* few frames can cross (0 s and -1 s for 30 s and 45 s) and loitering
\* watched in the restricted storage room as well
StoreZones ==
    << DetectionZone("Checkout_Counter", Rect(0, 0, 300, 200), FALSE, TRUE, 0),
       DetectionZone("Electronics_Display", Rect(300, 0, 600, 300), FALSE, TRUE, -1),
       DetectionZone("Exit_Zone", Rect(700, 0, 1000, 200), FALSE, FALSE, 60),
       DetectionZone("Employee_Storage", Rect(0, 400, 200, 600), TRUE, TRUE, 0) >>

InitStore ==
    /\ tracked_people = <<>>
    /\ next_person_id = 0
    /\ recent_alerts = <<>>
    /\ now = 0
    /\ zones = StoreZones
    /\ call = NoCall
    /\ ret = NoRet
    /\ issued_ids = <<>>
    /\ created_alerts = <<>>
    /\ frame_log = <<>>

RECURSIVE NewIds(_)
NewIds(tracked) ==
    IF tracked = <<>> THEN <<>>
    ELSE (IF Head(tracked).matched THEN <<>> ELSE <<Head(tracked).person_id>>)
         \o NewIds(Tail(tracked))

AnalyzeFrame(result, image_path, frame_number) ==
    \E r \in {analyze_frame(Tracker(tracked_people, next_person_id),
                           AlertStore(recent_alerts, now), zones, result,
                           image_path, frame_number)} :
        /\ tracked_people' = r.tracker.people
        /\ next_person_id' = r.tracker.next_id
        /\ recent_alerts' = r.am.alerts
        /\ now' = r.am.clock
        /\ issued_ids' = issued_ids \o NewIds(r.tracked)
        /\ created_alerts' = created_alerts \o r.made
        /\ frame_log' = Append(frame_log, IF r.caught \/ r.propagated THEN "failed" ELSE "ok")
        /\ call' = [op |-> "analyze_frame", result |-> result,
                    frame_number |-> frame_number]
        /\ ret' = [kind |-> IF r.propagated THEN "raised" ELSE "alerts",
                   alerts |-> r.alerts, caught |-> r.caught, tracked |-> r.tracked,
                   made |-> r.made]
        /\ UNCHANGED zones

Absent == [present |-> FALSE, list |-> <<>>]
Listed(list) == [present |-> TRUE, list |-> list]

AnalysisResult(vision_raises, people, objects, tags) ==
    [vision_raises |-> vision_raises, people |-> people, objects |-> objects,
     tags |-> tags]

Detection(bounding_box, confidence) ==
    [bounding_box |-> bounding_box, confidence |-> confidence]

\* a shopper at the checkout, one at the electronics display, one in the
\* storage room, one in the storage room reported with confidence 1.5, and
\* one in the aisle outside every zone
PersonInputs ==
    { Detection(BBox(100, 50, 50, 100), 950),
      Detection(BBox(400, 100, 50, 100), 880),
      Detection(BBox(50, 450, 50, 100), 900),
      Detection(BBox(60, 450, 50, 100), 1500),
      Detection(BBox(650, 350, 50, 100), 990) }

\* people lists of at most two detections, no detection twice in a frame
PeopleLists ==
    {<<>>} \cup {<<p>> : p \in PersonInputs}
           \cup {<<pq[1], pq[2]>> : pq \in {x \in PersonInputs \X PersonInputs : x[1] # x[2]}}

PeopleResults ==
    {AnalysisResult(FALSE, Listed(l), Absent, Absent) : l \in PeopleLists}
      \cup {AnalysisResult(FALSE, Absent, Absent, Absent),
            AnalysisResult(TRUE, Absent, Absent, Absent)}

PeopleFrame ==
    /\ Len(frame_log) < MaxAnalyses
    /\ \E result \in PeopleResults, f \in 0..MaxFrame :
         AnalyzeFrame(result, "frame.jpg", f)

NextPeople == PeopleFrame

SpecPeople == InitStore /\ [][NextPeople]_vars

(***************************************************************************)
(* analyze_frame on single images (frame_number 0) with objects and scene  *)
(* tags.                                                                   *)
(***************************************************************************)
Tag(name, confidence) == [name |-> name, confidence |-> confidence]

DetectedObject(bounding_box, tags) == [bounding_box |-> bounding_box, tags |-> tags]

\* a box whose centre (850, 100) is in Exit_Zone, one whose centre
\* (150, 100) is in Checkout_Counter
AtExit == BBox(800, 50, 100, 100)
AtCheckout == BBox(100, 50, 100, 100)

\* 0.59, 0.6, 0.61, 0.9, and 1.2 (which times 0.9 is above 1); multiples of
\* 0.01, whose product with 0.9 is a whole number of thousandths
ConfidenceGrid == {590, 600, 610, 900, 1200}

ObjectLists ==
    {<<DetectedObject(AtExit, <<Tag("laptop", c)>>)>> : c \in ConfidenceGrid}
      \cup { <<>>,
             <<DetectedObject(AtExit, <<Tag("Laptop", 900), Tag("shelf", 950)>>)>>,
             <<DetectedObject(AtExit, <<Tag("shelf", 900)>>)>>,
             <<DetectedObject(AtExit, <<>>)>>,
             <<DetectedObject(AtCheckout, <<Tag("laptop", 900)>>)>>,
             <<DetectedObject(AtExit, <<Tag("phone", 600)>>),
               DetectedObject(AtExit, <<Tag("watch", 900)>>)>> }

TagLists ==
    {<<Tag("person", 900), Tag("reaching", c)>> : c \in ConfidenceGrid \ {1200}}
      \cup { <<>>,
             <<Tag("person", 900), Tag("bag", 900), Tag("clothing", 900),
               Tag("reaching", 900)>>,
             <<Tag("Person", 900), Tag("handbag", 900), Tag("clothing", 900)>>,
             <<Tag("Person", 950), Tag("backpack", 700), Tag("Electronics", 800)>>,
             <<Tag("handbag", 900), Tag("clothing", 900)>>,
             <<Tag("person", 900), Tag(NoneName, 900)>>,
             <<Tag("person", 900), Tag(NoneName, 600)>> }

\* frames with objects only, with tags only, and some with people, objects
\* and tags together; a vision call that raises
SceneResults ==
    {AnalysisResult(FALSE, Absent, Listed(o), Absent) : o \in ObjectLists}
      \cup {AnalysisResult(FALSE, Absent, Absent, Listed(t)) : t \in TagLists}
      \cup {AnalysisResult(FALSE, Listed(<<p>>),
                           Listed(<<DetectedObject(AtExit, <<Tag("laptop", c)>>)>>),
                           Listed(<<Tag("person", 900), Tag("reaching", 900)>>)) :
              p \in {Detection(BBox(50, 450, 50, 100), 900),
                     Detection(BBox(60, 450, 50, 100), 1500)},
              c \in {900, 1200}}
      \cup {AnalysisResult(TRUE, Absent, Absent, Absent)}

SceneFrame ==
    /\ Len(frame_log) < MaxAnalyses
    /\ \E result \in SceneResults : AnalyzeFrame(result, "image.jpg", 0)

NextScene == SceneFrame

SpecScene == InitStore /\ [][NextScene]_vars

(***************************************************************************)
(* Reading the last analyze_frame call.                                    *)
(***************************************************************************)
FrameDone == call.op = "analyze_frame"
FrameOk == FrameDone /\ ret.kind = "alerts" /\ ~ret.caught

\* the people list handed to the call (none when result.people is None)
FramePeople == IF call.result.people.present THEN call.result.people.list ELSE <<>>

\* positions in a list of alerts of the alerts of one type drawn around box
AlertsAbout(alerts, alert_type, box) ==
    {k \in 1..Len(alerts) : /\ alerts[k].alert_type = alert_type
                            /\ alerts[k].bounding_boxes = <<box>>}

AlertsOfType(alerts, alert_type) ==
    {k \in 1..Len(alerts) : alerts[k].alert_type = alert_type}

\* the track the tracker answered with for the i-th person of the frame
TrackOf(i) ==
    tracked_people[CHOOSE k \in 1..Len(tracked_people) :
                      tracked_people[k].person_id = ret.tracked[i].person_id]

ZoneOf(person) == find_zone_for_bounding_box(zones, person.bounding_box)

(***************************************************************************)
(* C3.  analyze_frame never lets an exception out: when the vision call,   *)
(* the people, object or scene-tag analysis raises (a ValidationError of   *)
(* create_alert included) it returns the empty list; a frame with no such  *)
(* fault, also one that follows failed frames, is processed and not cut    *)
(* short.                                                                  *)
(***************************************************************************)
\* a person in a restricted zone whose confidence is not in [0, 1]
C3_PersonFault(result) ==
    /\ result.people.present
    /\ \E i \in 1..Len(result.people.list) :
         /\ ~(0 <= result.people.list[i].confidence /\ result.people.list[i].confidence <= 1000)
         /\ ZoneOf(result.people.list[i]) # NoZone
         /\ ZoneOf(result.people.list[i]).is_restricted

\* a high-value object at an exit whose confidence times 0.9 is above 1
C3_ObjectFault(result) ==
    /\ result.objects.present
    /\ \E i \in 1..Len(result.objects.list) :
         LET obj == result.objects.list[i]
         IN  /\ obj.tags # <<>>
             /\ obj.tags[1].confidence * 9 > 10000
             /\ ZoneOf(obj) # NoZone
             /\ analyze_object_for_high_value(obj.tags[1].name, ZoneOf(obj).name)

\* a tag above the threshold whose name is None
C3_TagFault(result) ==
    /\ result.tags.present
    /\ \E i \in 1..Len(result.tags.list) :
         /\ result.tags.list[i].name = NoneName
         /\ result.tags.list[i].confidence > 600

C3_Fault(result) ==
    \/ result.vision_raises
    \/ C3_PersonFault(result)
    \/ C3_ObjectFault(result)
    \/ C3_TagFault(result)

C3_AnalyzeFrameNeverPropagates ==
    FrameDone =>
        /\ ret.kind = "alerts"
        /\ C3_Fault(call.result) => ret.caught /\ ret.alerts = <<>>
        /\ ~C3_Fault(call.result) => ~ret.caught /\ ret.alerts = ret.made
        /\ frame_log[Len(frame_log)] = (IF C3_Fault(call.result) THEN "failed" ELSE "ok")

\* a frame that raised while creating an alert was answered with the empty
\* list, and the frame after it returned alerts
C3_Witness ==
    /\ FrameOk
    /\ frame_log = <<"failed", "ok">>
    /\ now > Len(recent_alerts)
    /\ ret.alerts # <<>>

(***************************************************************************)
(* C4.  As claimed: when the scene tags that pass the confidence filter    *)
(* satisfy several of the tag combinations, analyze_frame returns one      *)
(* CONCEALMENT_PATTERN alert (confidence 0.70, severity MEDIUM, location   *)
(* "Unknown") for each satisfied combination.  The code returns one alert  *)
(* for the first satisfied combination only.                               *)
(***************************************************************************)
FrameTags == IF call.result.tags.present THEN call.result.tags.list ELSE <<>>

NormalizedTags(names) == JoinWithSpace([i \in 1..Len(names) |-> Lower(Chars(names[i]))])

\* the combinations the filtered tags of the frame satisfy
C4_Satisfied ==
    PresentPatterns(SUSPICIOUS_PATTERNS, NormalizedTags(HighConfidenceTags(FrameTags)))

C4_OneAlertPerSatisfiedCombination ==
    FrameOk =>
        /\ Cardinality(AlertsOfType(ret.alerts, "CONCEALMENT_PATTERN")) = Len(C4_Satisfied)
        /\ \A k \in AlertsOfType(ret.alerts, "CONCEALMENT_PATTERN") :
             /\ ret.alerts[k].confidence = 700
             /\ ret.alerts[k].severity = "MEDIUM"
             /\ ret.alerts[k].location = "Unknown"

\* what the code does: one alert, carrying the first satisfied combination
C4_FirstCombinationOnly ==
    FrameOk =>
        /\ Cardinality(AlertsOfType(ret.alerts, "CONCEALMENT_PATTERN"))
             = (IF C4_Satisfied = <<>> THEN 0 ELSE 1)
        /\ \A k \in AlertsOfType(ret.alerts, "CONCEALMENT_PATTERN") :
             ret.alerts[k].description = C4_Satisfied[1]

\* tags person, bag, clothing, reaching: two combinations, one alert
C4_TwoSatisfiedOneAlert ==
    /\ FrameOk
    /\ Len(C4_Satisfied) = 2
    /\ Cardinality(AlertsOfType(ret.alerts, "CONCEALMENT_PATTERN")) = 1

(***************************************************************************)
(* C10.  As claimed: an object or a scene tag is left out of rule          *)
(* evaluation exactly when its confidence is below 0.6, so one at exactly  *)
(* 0.6 takes part: a high-value object at an exit raises its alert exactly *)
(* when its confidence is at least 0.6, and a CONCEALMENT_PATTERN alert is *)
(* raised exactly when the tags of confidence at least 0.6 satisfy a       *)
(* combination.  The code keeps a tag only above 0.6.                      *)
(***************************************************************************)
FrameObjects == IF call.result.objects.present THEN call.result.objects.list ELSE <<>>

\* the names of the tags whose confidence is not below 0.6
RECURSIVE C10_NotBelow(_)
C10_NotBelow(tag_list) ==
    IF tag_list = <<>> THEN <<>>
    ELSE (IF Head(tag_list).confidence >= 600 THEN <<Head(tag_list).name>> ELSE <<>>)
         \o C10_NotBelow(Tail(tag_list))

C10_ObjectSide ==
    \A i \in 1..Len(FrameObjects) :
        LET obj == FrameObjects[i]
        IN  obj.tags # <<>> =>
              ((\E k \in AlertsAbout(ret.alerts, "UNPAID_ITEM_AT_EXIT", obj.bounding_box) :
                    ret.alerts[k].description[2] = obj.tags[1].name)
                <=> /\ obj.tags[1].confidence >= 600
                    /\ ZoneOf(obj) # NoZone
                    /\ analyze_object_for_high_value(obj.tags[1].name, ZoneOf(obj).name))

C10_TagSide ==
    (\A i \in 1..Len(FrameTags) : FrameTags[i].name # NoneName) =>
        ((AlertsOfType(ret.alerts, "CONCEALMENT_PATTERN") # {})
           <=> PresentPatterns(SUSPICIOUS_PATTERNS,
                               NormalizedTags(C10_NotBelow(FrameTags))) # <<>>)

C10_SkippedIffBelowThreshold == FrameOk => C10_ObjectSide /\ C10_TagSide

\* the object side alone holds
C10_ObjectsSkippedIffBelowThreshold == FrameOk => C10_ObjectSide

\* tags person at 0.9 and reaching at exactly 0.6 raised no alert
C10_TagAtThresholdSkipped ==
    /\ FrameOk
    /\ \E i \in 1..Len(FrameTags) : FrameTags[i].confidence = 600
    /\ \A i \in 1..Len(FrameTags) : FrameTags[i].name # NoneName
    /\ PresentPatterns(SUSPICIOUS_PATTERNS, NormalizedTags(C10_NotBelow(FrameTags))) # <<>>
    /\ AlertsOfType(ret.alerts, "CONCEALMENT_PATTERN") = {}

(***************************************************************************)
(* C5.  As claimed: in every analyze_frame call a LOITERING alert          *)
(* (severity MEDIUM, confidence 0.85, location the zone's name) is         *)
(* produced for a detected person if and only if the person's zone has     *)
(* alert_on_loitering and (frame_number - first_frame of the person's      *)
(* track) / 30 > max_loiter_seconds.  This fails in a frame cut short by   *)
(* an exception.                                                           *)
(***************************************************************************)
\* (frame_number - first_frame) / 30 > max_loiter_seconds, for the i-th person
C5_Due(i, zone) ==
    /\ zone # NoZone
    /\ zone.alert_on_loitering
    /\ call.frame_number - TrackOf(i).first_frame > 30 * zone.max_loiter_seconds

\* the i-th person has one LOITERING alert among alerts, and it is MEDIUM,
\* 0.85 and located in the person's zone
C5_Alerted(i, zone, alerts) ==
    /\ Cardinality(AlertsAbout(alerts, "LOITERING", FramePeople[i].bounding_box)) = 1
    /\ \A k \in AlertsAbout(alerts, "LOITERING", FramePeople[i].bounding_box) :
         /\ alerts[k].severity = "MEDIUM"
         /\ alerts[k].confidence = 850
         /\ alerts[k].location = zone.name

C5_Unalerted(i, alerts) ==
    AlertsAbout(alerts, "LOITERING", FramePeople[i].bounding_box) = {}

C6_Restricted(zone) == zone # NoZone /\ zone.is_restricted

C6_OneRestrictedAlertPerPersonInRestrictedZone ==
    FrameOk =>
        \A i \in 1..Len(FramePeople) :
            LET person == FramePeople[i]
                zone == ZoneOf(person)
                about == AlertsAbout(ret.alerts, "RESTRICTED_AREA_VIOLATION",
                                     person.bounding_box)
            IN  IF C6_Restricted(zone)
                  THEN /\ Cardinality(about) = 1
                       /\ \A k \in about :
                            /\ ret.alerts[k].severity = "CRITICAL"
                            /\ ret.alerts[k].location = zone.name
                            /\ ret.alerts[k].confidence = person.confidence
                  ELSE about = {}

\* a person in the storage room and a person in the aisle outside every
\* zone: one alert, for the first
C6_Witness ==
    /\ FrameOk
    /\ Len(FramePeople) = 2
    /\ C6_Restricted(ZoneOf(FramePeople[1]))
    /\ ZoneOf(FramePeople[2]) = NoZone
    /\ Cardinality(AlertsOfType(ret.alerts, "RESTRICTED_AREA_VIOLATION")) = 1
    /\ ret.alerts[1].confidence = FramePeople[1].confidence

C11_Name(obj) == IF obj.tags # <<>> THEN obj.tags[1].name ELSE "unknown"

\* the conditions of the rule, for an object and the zone of its box centre
C11_Due(obj, zone) ==
    /\ obj.tags # <<>>
    /\ obj.tags[1].confidence >= 600
    /\ \E n \in 1..Len(HIGH_VALUE_ITEMS) :
         IsSubstring(Chars(HIGH_VALUE_ITEMS[n]), Lower(Chars(obj.tags[1].name)))
    /\ zone # NoZone
    /\ IsSubstring(Chars("exit"), Lower(Chars(zone.name)))

\* the UNPAID_ITEM_AT_EXIT alerts among alerts that name the object
C11_About(obj, alerts) ==
    {k \in AlertsAbout(alerts, "UNPAID_ITEM_AT_EXIT", obj.bounding_box) :
        alerts[k].description[2] = C11_Name(obj)}

C11_Rule(alerts) ==
    \A i \in 1..Len(FrameObjects) :
        LET obj == FrameObjects[i]
            zone == ZoneOf(obj)
            about == C11_About(obj, alerts)
        IN  IF C11_Due(obj, zone)
              THEN /\ Cardinality(about) = 1
                   /\ \A k \in about :
                        /\ alerts[k].severity = "HIGH"
                        /\ alerts[k].confidence * 1000 = obj.tags[1].confidence * 900
                        /\ alerts[k].location = zone.name
              ELSE about = {}

MaxWalkFrame == 6

\* two boxes within 100 px of each other, and one far from both
WalkBoxes ==
    {BBox(100, 100, 50, 100), BBox(110, 100, 50, 100), BBox(600, 100, 50, 100)}

WalkFrames ==
    IF call = NoCall THEN {0}
    ELSE {f \in {call.frame_number + 1} : f <= MaxWalkFrame}

WalkTrack == \E b \in WalkBoxes, f \in WalkFrames : TrackPerson(b, f)

NextWalk == WalkTrack

SpecWalk == Init /\ [][NextWalk]_vars

(***************************************************************************)
(* C12.  After every track_person call each tracked person's               *)
(* position_history has at most 5 entries; a matched detection appends its *)
(* box as the newest entry, evicts the oldest entry when there were 5      *)
(* already, keeps the others in order, and sets last_frame to the current  *)
(* frame; the other tracks are unchanged.                                  *)
(***************************************************************************)
C12_Appended(old, new, box) ==
    LET n == Len(old.position_history)
        k == Len(new.position_history)
    IN  /\ k = IF n < 5 THEN n + 1 ELSE 5
        /\ new.position_history[k] = box
        /\ \A j \in 1..(k - 1) :
             new.position_history[j] = old.position_history[n + 1 - k + j]

C12_Step ==
    call'.op = "track_person" =>
      /\ \A i \in 1..Len(tracked_people') :
           Len(tracked_people'[i].position_history) \in 1..5
      /\ ret'.matched =>
           /\ Len(tracked_people') = Len(tracked_people)
           /\ \A i \in 1..Len(tracked_people) :
                IF tracked_people[i].person_id = ret'.person_id
                  THEN /\ C12_Appended(tracked_people[i], tracked_people'[i],
                                       call'.bounding_box)
                       /\ tracked_people'[i].last_frame = call'.frame_number
                       /\ tracked_people'[i].first_frame = tracked_people[i].first_frame
                       /\ tracked_people'[i].person_id = tracked_people[i].person_id
                  ELSE tracked_people'[i] = tracked_people[i]

C12_HistoryKeepsLastFive == [][C12_Step]_vars

\* a track matched in six consecutive frames after its creation: seven boxes
\* were appended, five are kept, and they are not all the same box
C12_Witness ==
    /\ call.op = "track_person"
    /\ ret.matched
    /\ \E i \in 1..Len(tracked_people) :
         /\ tracked_people[i].person_id = ret.person_id
         /\ tracked_people[i].last_frame - tracked_people[i].first_frame = 6
         /\ Len(tracked_people[i].position_history) = 5
         /\ tracked_people[i].position_history[1] # tracked_people[i].position_history[5]

(***************************************************************************)
(* PersonTracker with tracks created, cleaned up and looked up by id.      *)
(***************************************************************************)
GetTrackingData(person_id) ==
    \E i \in {get_tracking_data(tracked_people, person_id)} :
        /\ call' = [op |-> "get_tracking_data", person_id |-> person_id]
        /\ ret' = IF i = 0 THEN [kind |-> "None"]
                  ELSE [kind |-> "tracking_data", data |-> tracked_people[i]]
        /\ UNCHANGED <<tracked_people, next_person_id, recent_alerts, now, zones,
                       issued_ids, created_alerts, frame_log>>

\* two boxes far from each other
CleanupBoxes == {BBox(100, 100, 50, 100), BBox(600, 100, 50, 100)}

CleanupTrack == \E b \in CleanupBoxes, f \in 0..MaxFrame : TrackPerson(b, f)
CleanupSweep == \E f \in 0..MaxFrame, a \in 0..MaxAge : CleanupOldTracks(f, a)
CleanupLookup == \E n \in 0..MaxPersons : GetTrackingData(PersonId(n))

NextCleanup == CleanupTrack \/ CleanupSweep \/ CleanupLookup

SpecCleanup == Init /\ [][NextCleanup]_vars

(***************************************************************************)
(* C13.  cleanup_old_tracks(current_frame, max_age_frames) removes exactly *)
(* the tracks with current_frame - last_frame > max_age_frames: a track    *)
(* whose age equals max_age_frames is kept, kept records are unchanged and *)
(* stay in order, and the id counter is unchanged; looking up an id, a     *)
(* removed one included, returns the record when tracked and None          *)
(* otherwise.                                                              *)
(***************************************************************************)
C13_Kept(current_frame, max_age_frames) ==
    {i \in 1..Len(tracked_people) :
        current_frame - tracked_people[i].last_frame <= max_age_frames}

C13_CleanupStep ==
    call'.op = "cleanup_old_tracks" =>
      LET kept == C13_Kept(call'.current_frame, call'.max_age_frames)
      IN  /\ Len(tracked_people') = Cardinality(kept)
          /\ \A i \in kept :
               tracked_people'[Cardinality({j \in kept : j <= i})] = tracked_people[i]
          /\ next_person_id' = next_person_id

C13_LookupStep ==
    call'.op = "get_tracking_data" =>
      LET found == {i \in 1..Len(tracked_people) :
                       tracked_people[i].person_id = call'.person_id}
      IN  /\ tracked_people' = tracked_people
          /\ IF found = {} THEN ret'.kind = "None"
             ELSE /\ ret'.kind = "tracking_data"
                  /\ \E i \in found : ret'.data = tracked_people[i]

C13_CleanupRemovesExactlyOldTracks == [][C13_CleanupStep /\ C13_LookupStep]_vars

\* a cleanup has removed person_0 and kept a track whose age equals
\* max_age_frames; the lookup of person_0 then returns None
C13_Witness ==
    /\ call.op = "get_tracking_data"
    /\ call.person_id = PersonId(0)
    /\ Len(issued_ids) = 2
    /\ ret.kind = "None"
    /\ Len(tracked_people) = 1
    /\ tracked_people[1].person_id = PersonId(1)
    /\ tracked_people[1].last_frame = MaxFrame

(***************************************************************************)
(* AlertManager with alerts created and the recent ones read back.         *)
(***************************************************************************)
GetRecentAlerts(count) ==
    \E r \in {get_recent_alerts(recent_alerts, count)} :
        /\ call' = [op |-> "get_recent_alerts", count |-> count]
        /\ ret' = [kind |-> "alerts", alerts |-> r.alerts,
                   is_store_list |-> r.is_store_list]
        /\ UNCHANGED <<tracked_people, next_person_id, recent_alerts, now, zones,
                       issued_ids, created_alerts, frame_log>>

\* None, and counts from -1 to one more than the store can hold here
CountInputs == {NoCount} \cup {Count(n) : n \in -1..(MaxAlertCalls + 1)}

RecentGet == \E count \in CountInputs : GetRecentAlerts(count)

NextRecent == AlertsCreate \/ RecentGet

SpecRecent == Init /\ [][NextRecent]_vars

(***************************************************************************)
(* C14.  get_recent_alerts(count) returns the last count stored alerts in  *)
(* stored order, min(count, stored) of them for every count >= 0 (none for *)
(* count = 0), all stored alerts when count is None; the list returned is  *)
(* a copy.                                                                 *)
(***************************************************************************)
C14_Expected(count) ==
    LET n == Len(recent_alerts)
        k == IF ~count.given THEN n
             ELSE IF count.value < n THEN count.value ELSE n
    IN  [j \in 1..k |-> recent_alerts[n - k + j]]

C14_InScope == call.op = "get_recent_alerts" /\ (call.count.given => call.count.value >= 0)

C14_RecentReturnsLastCount ==
    C14_InScope => ret.alerts = C14_Expected(call.count) /\ ~ret.is_store_list

\* what does hold: the same for count None and for every count >= 1
C14_RecentReturnsLastPositiveCount ==
    (C14_InScope /\ call.count # Count(0)) =>
        ret.alerts = C14_Expected(call.count) /\ ~ret.is_store_list

\* get_recent_alerts(0) on a store of two alerts returns both
C14_ZeroCountReturnsAll ==
    /\ call = [op |-> "get_recent_alerts", count |-> Count(0)]
    /\ Len(recent_alerts) = 2
    /\ ret.alerts = recent_alerts

(***************************************************************************)
(* ZoneMonitor: built with the default zones or with a list of zones, then *)
(* zones are constructed and added, and points and boxes are looked up.    *)
(***************************************************************************)
MaxZones == 5

DEFAULT_LOITER_SECONDS == 180
HIGH_VALUE_LOITER_SECONDS == 120

\* ZoneMonitor._create_default_zones
create_default_zones ==
    << DetectionZone("Checkout_Counter", Rect(0, 0, 300, 200), FALSE, TRUE,
                     DEFAULT_LOITER_SECONDS),
       DetectionZone("Electronics_Display", Rect(300, 0, 600, 300), FALSE, TRUE,
                     HIGH_VALUE_LOITER_SECONDS),
       DetectionZone("Exit_Zone", Rect(700, 0, 1000, 200), FALSE, FALSE,
                     DEFAULT_LOITER_SECONDS),
       DetectionZone("Employee_Storage", Rect(0, 400, 200, 600), TRUE, FALSE,
                     DEFAULT_LOITER_SECONDS) >>

\* a zone with negative coordinates and a triangle
Yard == DetectionZone("Yard", Rect(-100, -100, 0, 0), FALSE, FALSE, 120)
Corner ==
    DetectionZone("Corner", <<(<<600, 300>>), (<<700, 300>>), (<<600, 400>>)>>,
                  TRUE, FALSE, 120)

\* ZoneMonitor(): zones = None gives the defaults, otherwise the list given
ZoneMonitorInputs == {create_default_zones, <<>>, <<Yard, Corner>>}

InitZones ==
    /\ tracked_people = <<>>
    /\ next_person_id = 0
    /\ recent_alerts = <<>>
    /\ now = 0
    /\ zones \in ZoneMonitorInputs
    /\ call = NoCall
    /\ ret = NoRet
    /\ issued_ids = <<>>
    /\ created_alerts = <<>>
    /\ frame_log = <<>>

\* DetectionZone(name, coordinates) followed, when it does not raise, by
\* add_zone of the zone constructed
AddZone(name, coordinates) ==
    /\ zones' = IF detection_zone_raises(coordinates) THEN zones
                ELSE add_zone(zones, DetectionZone(name, coordinates, FALSE, FALSE, 120))
    /\ call' = [op |-> "add_zone", name |-> name, coordinates |-> coordinates]
    /\ ret' = IF detection_zone_raises(coordinates) THEN [kind |-> "raised"]
              ELSE [kind |-> "none"]
    /\ UNCHANGED <<tracked_people, next_person_id, recent_alerts, now, issued_ids,
                   created_alerts, frame_log>>

FindZoneForPoint(x, y) ==
    /\ call' = [op |-> "find_zone_for_point", x |-> x, y |-> y]
    /\ ret' = [kind |-> "zone", zone |-> find_zone_for_point(zones, x, y)]
    /\ UNCHANGED <<tracked_people, next_person_id, recent_alerts, now, zones,
                   issued_ids, created_alerts, frame_log>>

FindZoneForBoundingBox(bounding_box) ==
    /\ call' = [op |-> "find_zone_for_bounding_box", bounding_box |-> bounding_box]
    /\ ret' = [kind |-> "zone", zone |-> find_zone_for_bounding_box(zones, bounding_box)]
    /\ UNCHANGED <<tracked_people, next_person_id, recent_alerts, now, zones,
                   issued_ids, created_alerts, frame_log>>

\* polygons for new zones: one overlapping the checkout counter and the
\* electronics display, one equal to the checkout counter, and lists of 0, 1
\* and 2 points
ZoneInputs ==
    { <<"Overlay", Rect(200, 100, 400, 250)>>,
      <<"Till", Rect(0, 0, 300, 200)>>,
      <<"Empty", <<>> >>,
      <<"Dot", <<(<<10, 10>>)>> >>,
      <<"Line", <<(<<0, 0>>), (<<10, 10>>)>> >> }

PointInputs ==
    ({0, 250, 300, 301} \X {0, 150, 200, 201})
      \cup {<<-1, -1>>, <<620, 320>>, <<690, 390>>}

BoxInputs ==
    {BBox(x, y, w, h) : x \in {-1, 300}, y \in {-1, 100, 200},
                        w \in 0..2, h \in {0, 2}}

ZonesAdd == /\ Len(zones) < MaxZones
            /\ \E z \in ZoneInputs : AddZone(z[1], z[2])
ZonesPoint == \E p \in PointInputs : FindZoneForPoint(p[1], p[2])
ZonesBox == \E b \in BoxInputs : FindZoneForBoundingBox(b)

NextZones == ZonesAdd \/ ZonesPoint \/ ZonesBox

SpecZones == InitZones /\ [][NextZones]_vars

(***************************************************************************)
(* C15.  find_zone_for_bounding_box(bbox) returns the zone (or none) that  *)
(* the point query returns at the box centre (x + width/2, y + height/2),  *)
(* for every box, half-pixel centres and negative coordinates included.    *)
(***************************************************************************)
\* the polygon with every coordinate doubled
C15_Doubled(coordinates) ==
    [i \in 1..Len(coordinates) |-> <<2 * coordinates[i][1], 2 * coordinates[i][2]>>]

\* find_zone_for_point at the exact centre: the point and the polygons are
\* doubled, which leaves every comparison of the ray test as it is
C15_ZoneAtCentre(zs, bbox) ==
    LET c == calculate_bounding_box_center(bbox)
        hits == {i \in 1..Len(zs) :
                    point_in_polygon(c, C15_Doubled(zs[i].coordinates))}
    IN  IF hits = {} THEN NoZone
        ELSE zs[CHOOSE i \in hits : \A j \in hits : i <= j]

C15_BoxQueryIsCentreQuery ==
    call.op = "find_zone_for_bounding_box" =>
        ret.zone = C15_ZoneAtCentre(zones, call.bounding_box)

\* what does hold: the box query is the point query at the centre with both
\* coordinates truncated towards zero
C15_BoxQueryIsTruncatedCentreQuery ==
    call.op = "find_zone_for_bounding_box" =>
        LET b == call.bounding_box
        IN  ret.zone = find_zone_for_point(zones, TruncHalf(2 * b.x + b.width),
                                           TruncHalf(2 * b.y + b.height))

\* the box (300, 100, 1, 2) has its centre at (300.5, 101), in the electronics
\* display; the box query answers the checkout counter
C15_HalfPixelCentreInNeighbourZone ==
    /\ call.op = "find_zone_for_bounding_box"
    /\ call.bounding_box = BBox(300, 100, 1, 2)
    /\ zones = create_default_zones
    /\ C15_ZoneAtCentre(zones, call.bounding_box).name = "Electronics_Display"
    /\ ret.zone.name = "Checkout_Counter"

(***************************************************************************)
(* C16.  find_zone_for_point returns the first zone, in registration       *)
(* order, whose polygon contains the point, and none when no zone does: of *)
(* overlapping zones the one registered earlier wins, and a zone added     *)
(* with add_zone never changes the answer for a point that an earlier zone *)
(* already contains.                                                       *)
(***************************************************************************)
C16_Inside(zone, x, y) == CrossingCount(<<x, y>>, zone.coordinates) % 2 = 1

C16_FirstZone ==
    call.op = "find_zone_for_point" =>
      IF \A i \in 1..Len(zones) : ~C16_Inside(zones[i], call.x, call.y)
        THEN ret.zone = NoZone
        ELSE \E i \in 1..Len(zones) :
               /\ ret.zone = zones[i]
               /\ C16_Inside(zones[i], call.x, call.y)
               /\ \A j \in 1..(i - 1) : ~C16_Inside(zones[j], call.x, call.y)

C16_AddStep ==
    call'.op = "add_zone" =>
      \A p \in PointInputs :
        find_zone_for_point(zones, p[1], p[2]) # NoZone =>
          find_zone_for_point(zones', p[1], p[2]) = find_zone_for_point(zones, p[1], p[2])

C16_FirstRegisteredZoneWins == []C16_FirstZone /\ [][C16_AddStep]_vars

\* (250, 150) lies in the checkout counter and in the overlay added after it:
\* the query answers the checkout counter
C16_Witness ==
    /\ call = [op |-> "find_zone_for_point", x |-> 250, y |-> 150]
    /\ Len(zones) = 5
    /\ zones[5].name = "Overlay"
    /\ C16_Inside(zones[5], 250, 150)
    /\ ret.zone.name = "Checkout_Counter"

(***************************************************************************)
(* C17.  Constructing a DetectionZone from fewer than 3 points fails and   *)
(* yields no zone, so whatever zones a ZoneMonitor was built with and      *)
(* whatever was added to it, each of its zones has at least 3 vertices.    *)
(***************************************************************************)
C17_MonitorZones == \A i \in 1..Len(zones) : Len(zones[i].coordinates) >= 3

C17_ConstructStep ==
    (call'.op = "add_zone" /\ Len(call'.coordinates) < 3) =>
        ret'.kind = "raised" /\ zones' = zones

VALID_ALERT_TYPES ==
    {"RESTRICTED_AREA_VIOLATION", "LOITERING", "UNPAID_ITEM_AT_EXIT",
     "CONCEALMENT_PATTERN"}

C18_StoredAlertTypesAreValid ==
    \A i \in 1..Len(recent_alerts) : recent_alerts[i].alert_type \in VALID_ALERT_TYPES

\* what does hold: the alerts analyze_frame creates have one of the four types
C18_AnalyzeFrameAlertTypesAreValid ==
    FrameDone => \A i \in 1..Len(ret.made) : ret.made[i].alert_type \in VALID_ALERT_TYPES

\* create_alert("TAILGATING", ...) returned an alert and the store holds it
C18_UnknownTypeStored ==
    /\ call.op = "create_alert"
    /\ call.alert_type = "TAILGATING"
    /\ ret.kind = "alert"
    /\ recent_alerts # <<>>
    /\ recent_alerts[Len(recent_alerts)] = ret.alert
    /\ ret.alert.alert_type \notin VALID_ALERT_TYPES

(***************************************************************************)
(* AlertManager filled past its cap, with reports generated along the way. *)
(***************************************************************************)
\* AlertManager.generate_report: the report is built, written to output_file
\* and returned
GenerateReport(output_file) ==
    \E report \in {build_report(AlertStore(recent_alerts, now))} :
        /\ call' = [op |-> "generate_report", output_file |-> output_file]
        /\ ret' = [kind |-> "report", report |-> report]
        /\ UNCHANGED <<tracked_people, next_person_id, recent_alerts, now, zones,
                       issued_ids, created_alerts, frame_log>>

\* valid alerts; the type and the severity vary in the first MaxVaried calls
ReportCreate ==
    /\ now < MaxCreates
    /\ \E t \in IF now < MaxVaried THEN {"LOITERING", "TAILGATING"} ELSE {"LOITERING"},
          v \in IF now < MaxVaried THEN {"MEDIUM", "HIGH"} ELSE {"MEDIUM"} :
         CreateAlert(t, LOITERING_CONFIDENCE, "Exit_Zone", "description", "frame.jpg",
                     <<BBox(100, 50, 50, 100)>>, v)

ReportGenerate == \E f \in {"theft_report.json", "second_report.json"} : GenerateReport(f)

NextReport == ReportCreate \/ ReportGenerate

SpecReport == Init /\ [][NextReport]_vars

(***************************************************************************)
(* C19.  In every report total_alerts is the number of alerts the store    *)
(* retains (at most 100), and the by_type counts and the by_severity       *)
(* counts each add up to it; a report built right after another, with no   *)
(* alert created in between, has the same total_alerts, by_type and        *)
(* by_severity; building a report leaves the store as it was.              *)
(***************************************************************************)
RECURSIVE C19_Sum(_)
C19_Sum(counts) ==
    IF DOMAIN counts = {} THEN 0
    ELSE LET k == CHOOSE x \in DOMAIN counts : TRUE
         IN  counts[k] + C19_Sum([x \in DOMAIN counts \ {k} |-> counts[x]])

C19_Totals ==
    call.op = "generate_report" =>
      /\ ret.report.total_alerts = Len(recent_alerts)
      /\ ret.report.total_alerts <= 100
      /\ C19_Sum(ret.report.by_type) = ret.report.total_alerts
      /\ C19_Sum(ret.report.by_severity) = ret.report.total_alerts

C19_ReportStep ==
    call'.op = "generate_report" =>
      /\ recent_alerts' = recent_alerts
      /\ call.op = "generate_report" =>
           /\ ret'.report.total_alerts = ret.report.total_alerts
           /\ ret'.report.by_type = ret.report.by_type
           /\ ret'.report.by_severity = ret.report.by_severity

C19_ReportCountsAgree == []C19_Totals /\ [][C19_ReportStep]_vars

\* a report of a full store that has dropped its oldest alerts, with two
\* types and two severities left in it
C19_Witness ==
    /\ call.op = "generate_report"
    /\ Len(created_alerts) > 100
    /\ ret.report.total_alerts = 100
    /\ DOMAIN ret.report.by_type = {"LOITERING", "TAILGATING"}
    /\ DOMAIN ret.report.by_severity = {"MEDIUM", "HIGH"}

(***************************************************************************)
(* C20.  A report has exactly the fields generated, total_alerts, by_type, *)
(* by_severity and alerts, and each entry of alerts has exactly the fields *)
(* timestamp, type, severity, confidence, location, description,           *)
(* image_path and bounding_boxes.                                          *)
(***************************************************************************)
C20_ReportFields == {"generated", "total_alerts", "by_type", "by_severity", "alerts"}

C20_ReportShape ==
    call.op = "generate_report" =>
      /\ DOMAIN ret.report = C20_ReportFields
      /\ \A i \in 1..Len(ret.report.alerts) :
           DOMAIN ret.report.alerts[i] =
             {"timestamp", "type", "severity", "confidence", "location", "description",
              "image_path", "bounding_boxes"}

\* what does hold: the entries carry the type under the name alert_type
C20_ReportShapeWithAlertType ==
    call.op = "generate_report" =>
      /\ DOMAIN ret.report = C20_ReportFields
      /\ \A i \in 1..Len(ret.report.alerts) :
           DOMAIN ret.report.alerts[i] =
             {"timestamp", "alert_type", "severity", "confidence", "location",
              "description", "image_path", "bounding_boxes"}

\* a report with one entry, which has a field alert_type and no field type
C20_EntryHasAlertTypeField ==
    /\ call.op = "generate_report"
    /\ Len(ret.report.alerts) = 1
    /\ "alert_type" \in DOMAIN ret.report.alerts[1]
    /\ "type" \notin DOMAIN ret.report.alerts[1]

(***************************************************************************)
(* analyze_frame on frames with two people, an object and scene tags at    *)
(* once, over consecutive frame numbers.                                   *)
(***************************************************************************)
\* two people of the storage room and the checkout in both orders, the same
\* detection twice, and a second person reported with confidence 1.5
OrderPeople ==
    LET storage == Detection(BBox(50, 450, 50, 100), 900)
        checkout == Detection(BBox(100, 50, 50, 100), 950)
        invalid == Detection(BBox(60, 450, 50, 100), 1500)
    IN  {<<storage, storage>>, <<checkout, storage>>, <<storage, checkout>>,
         <<storage, invalid>>}

OrderResults ==
    {AnalysisResult(FALSE, Listed(p), o, t) :
        p \in OrderPeople,
        o \in {Absent, Listed(<<DetectedObject(AtExit, <<Tag("laptop", 900)>>)>>)},
        t \in {Absent, Listed(<<Tag("person", 900), Tag("reaching", 900)>>)}}

OrderFrame ==
    /\ Len(frame_log) < MaxAnalyses
    /\ \E result \in OrderResults, f \in 0..MaxFrame : AnalyzeFrame(result, "frame.jpg", f)

NextOrder == OrderFrame

SpecOrder == InitStore /\ [][NextOrder]_vars

(***************************************************************************)
(* C21.  As claimed: the list analyze_frame returns is the alerts fired    *)
(* for the people, then those for the objects, then the concealment alert; *)
(* the people keep their input order, a person's restricted-area alert     *)
(* precedes the loitering alert, and no fired alert is left out.  This     *)
(* fails when an exception cuts the call short after an alert has fired.   *)
(***************************************************************************)
C21_Signature(alerts) ==
    [k \in 1..Len(alerts) |-> <<alerts[k].alert_type, alerts[k].bounding_boxes>>]

RECURSIVE C21_PeopleAlerts(_)
C21_PeopleAlerts(i) ==
    IF i > Len(FramePeople) THEN <<>>
    ELSE LET zone == ZoneOf(FramePeople[i])
             box == FramePeople[i].bounding_box
         IN  (IF C6_Restricted(zone)
                THEN << <<"RESTRICTED_AREA_VIOLATION", <<box>> >> >> ELSE <<>>)
             \o (IF C5_Due(i, zone) THEN << <<"LOITERING", <<box>> >> >> ELSE <<>>)
             \o C21_PeopleAlerts(i + 1)

RECURSIVE C21_ObjectAlerts(_)
C21_ObjectAlerts(i) ==
    IF i > Len(FrameObjects) THEN <<>>
    ELSE (IF C11_Due(FrameObjects[i], ZoneOf(FrameObjects[i]))
            THEN << <<"UNPAID_ITEM_AT_EXIT", <<FrameObjects[i].bounding_box>> >> >>
            ELSE <<>>)
         \o C21_ObjectAlerts(i + 1)

C21_BehaviourAlerts ==
    IF C4_Satisfied # <<>> THEN << <<"CONCEALMENT_PATTERN", <<>> >> >> ELSE <<>>

C21_Expected == C21_PeopleAlerts(1) \o C21_ObjectAlerts(1) \o C21_BehaviourAlerts

UpkeepResults ==
    {AnalysisResult(FALSE, Listed(l), Absent, Absent) :
        l \in {<<Detection(BBox(50, 450, 50, 100), 900)>>,
               <<Detection(BBox(100, 50, 50, 100), 950),
                 Detection(BBox(650, 350, 50, 100), 990)>>,
               <<Detection(BBox(60, 450, 50, 100), 1500)>>}}
      \cup {AnalysisResult(FALSE, Absent, Absent, Absent)}

UpkeepFrame ==
    /\ Len(frame_log) < MaxAnalyses
    /\ \E result \in UpkeepResults, f \in 0..MaxFrame : AnalyzeFrame(result, "frame.jpg", f)

UpkeepCleanup == \E f \in 0..MaxFrame : CleanupOldTracks(f, MaxAge)

NextUpkeep == UpkeepFrame \/ UpkeepCleanup

SpecUpkeep == InitStore /\ [][NextUpkeep]_vars

(***************************************************************************)
(* C22.  analyze_frame never removes a track: every track present before   *)
(* the call is present after it, unchanged in its id, so the set of        *)
(* tracked ids only grows over analyze_frame calls; a track disappears     *)
(* only in a cleanup_old_tracks call made by the caller.                   *)
(***************************************************************************)
C22_Ids(people) == {people[i].person_id : i \in 1..Len(people)}

C22_Step ==
    /\ call'.op = "analyze_frame" => C22_Ids(tracked_people) \subseteq C22_Ids(tracked_people')
    /\ ~(C22_Ids(tracked_people) \subseteq C22_Ids(tracked_people'))
         => call'.op = "cleanup_old_tracks"

C22_AnalyzeFrameNeverRemovesTracks == [][C22_Step]_vars

\* frame 1 shows one new person; the two people of frame 0, not seen again,
\* are still tracked
C22_Witness ==
    /\ FrameDone
    /\ call.frame_number = 1
    /\ Len(ret.tracked) = 1
    /\ ~ret.tracked[1].matched
    /\ Len(tracked_people) = 3
    /\ tracked_people[1].last_frame = 0
    /\ tracked_people[2].last_frame = 0

(***************************************************************************)
(* C23.  The alert manager prevents duplicate alerts: the store never      *)
(* holds two alerts with the same alert_type, location, description,       *)
(* image_path and bounding_boxes.                                          *)
(***************************************************************************)
C23_SameAlert(a, b) ==
    /\ a.alert_type = b.alert_type
    /\ a.location = b.location
    /\ a.description = b.description
    /\ a.image_path = b.image_path
    /\ a.bounding_boxes = b.bounding_boxes

C23_NoDuplicateAlerts ==
    \A i \in 1..Len(recent_alerts) : \A j \in 1..Len(recent_alerts) :
        i < j => ~C23_SameAlert(recent_alerts[i], recent_alerts[j])

\* two create_alert calls with the same arguments: the store holds two alerts
\* that differ in their timestamp only
C23_DuplicateStored ==
    /\ call.op = "create_alert"
    /\ ret.kind = "alert"
    /\ Len(recent_alerts) = 2
    /\ C23_SameAlert(recent_alerts[1], recent_alerts[2])
    /\ recent_alerts[1].confidence = recent_alerts[2].confidence
    /\ recent_alerts[1].severity = recent_alerts[2].severity
    /\ recent_alerts[1].timestamp # recent_alerts[2].timestamp

(***************************************************************************)
(* point_in_polygon applied to points around rectangles and to polygons of *)
(* fewer than 3 vertices.                                                  *)
(***************************************************************************)
PointInPolygon(point, polygon) ==
    /\ call = [op |-> "input", point |-> point, polygon |-> polygon]
    /\ call' = [op |-> "point_in_polygon", point |-> point, polygon |-> polygon]
    /\ ret' = [kind |-> "bool", value |-> point_in_polygon(point, polygon)]
    /\ UNCHANGED <<tracked_people, next_person_id, recent_alerts, now, zones,
                   issued_ids, created_alerts, frame_log>>

\* the four corners of a rectangle, from each corner and in both directions
CornerOrders(x1, y1, x2, y2) ==
    LET c == Rect(x1, y1, x2, y2)
    IN  {[i \in 1..4 |-> c[((i - 1 + k) % 4) + 1]] : k \in 0..3}
          \cup {[i \in 1..4 |-> c[((k - i + 8) % 4) + 1]] : k \in 0..3}

RectangleInputs ==
    UNION {CornerOrders(xs[1], ys[1], xs[2], ys[2]) :
              xs \in {<<0, 100>>, <<-50, 0>>, <<-50, 100>>},
              ys \in {<<0, 100>>, <<-50, 0>>, <<-50, 100>>}}

SmallPolygonInputs == {<<>>, <<(<<0, 0>>)>>, <<(<<0, 0>>), (<<100, 100>>)>>}

PolygonPointInputs == {-60, -10, 0, 10, 50, 90, 100, 150} \X {-60, -10, 0, 10, 50, 90, 100, 150}

\* the point and the polygon are chosen at the start
InitPolygon ==
    /\ tracked_people = <<>>
    /\ next_person_id = 0
    /\ recent_alerts = <<>>
    /\ now = 0
    /\ zones = <<>>
    /\ call \in {[op |-> "input", point |-> point, polygon |-> polygon] :
                    point \in PolygonPointInputs,
                    polygon \in RectangleInputs \cup SmallPolygonInputs}
    /\ ret = NoRet
    /\ issued_ids = <<>>
    /\ created_alerts = <<>>
    /\ frame_log = <<>>

PolygonQuery == PointInPolygon(call.point, call.polygon)

NextPolygon == PolygonQuery

SpecPolygon == InitPolygon /\ [][NextPolygon]_vars

(***************************************************************************)
(* C24.  point_in_polygon returns false for every polygon of fewer than 3  *)
(* vertices, and for an axis-aligned rectangle given by its four corners   *)
(* it returns true for every point strictly inside and false for every     *)
(* point strictly outside.                                                 *)
(***************************************************************************)
C24_Xs(polygon) == {polygon[i][1] : i \in 1..Len(polygon)}
C24_Ys(polygon) == {polygon[i][2] : i \in 1..Len(polygon)}

C24_StrictlyInside(point, polygon) ==
    /\ \E a \in C24_Xs(polygon) : a < point[1]
    /\ \E a \in C24_Xs(polygon) : point[1] < a
    /\ \E b \in C24_Ys(polygon) : b < point[2]
    /\ \E b \in C24_Ys(polygon) : point[2] < b

C24_StrictlyOutside(point, polygon) ==
    \/ \A a \in C24_Xs(polygon) : point[1] < a
    \/ \A a \in C24_Xs(polygon) : a < point[1]
    \/ \A b \in C24_Ys(polygon) : point[2] < b
    \/ \A b \in C24_Ys(polygon) : b < point[2]

C24_PointInPolygonOnRectangles ==
    call.op = "point_in_polygon" =>
        IF Len(call.polygon) < 3 THEN ret.value = FALSE
        ELSE /\ C24_StrictlyInside(call.point, call.polygon) => ret.value = TRUE
             /\ C24_StrictlyOutside(call.point, call.polygon) => ret.value = FALSE

\* (90, 90) is inside the square (0,0), (100,0), (100,100), (0,100)
C24_Witness ==
    /\ call = [op |-> "point_in_polygon", point |-> <<90, 90>>,
               polygon |-> Rect(0, 0, 100, 100)]
    /\ C24_StrictlyInside(call.point, call.polygon)
    /\ ret.value = TRUE

(***************************************************************************)
(* The zone registry of a running store: zones are added and looked up,    *)
(* frames are analysed, the list of zones is fetched and the list fetched  *)
(* is modified by the caller.                                              *)
(***************************************************************************)
GetAllZones ==
    \E r \in {get_all_zones(zones)} :
        /\ call' = [op |-> "get_all_zones"]
        /\ ret' = [kind |-> "zones", list |-> r.list, is_registry_list |-> r.is_registry_list]
        /\ UNCHANGED <<tracked_people, next_person_id, recent_alerts, now, zones,
                       issued_ids, created_alerts, frame_log>>

\* the caller changes the list get_all_zones has just returned: list.clear()
\* or list.append(zone); the registry changes with it if it is the same list
ModifyReturnedList(new_list) ==
    /\ call.op = "get_all_zones"
    /\ call' = [op |-> "modify_returned_list"]
    /\ ret' = [ret EXCEPT !.list = new_list]
    /\ zones' = IF ret.is_registry_list THEN new_list ELSE zones
    /\ UNCHANGED <<tracked_people, next_person_id, recent_alerts, now, issued_ids,
                   created_alerts, frame_log>>

RegistryAdd ==
    /\ Len(zones) < MaxZones
    /\ \E z \in {<<"Overlay", Rect(200, 100, 400, 250)>>,
                 <<"Line", <<(<<0, 0>>), (<<10, 10>>)>> >>} : AddZone(z[1], z[2])
RegistryPoint == \E p \in {<<250, 150>>, <<650, 350>>} : FindZoneForPoint(p[1], p[2])
RegistryBox == \E b \in {BBox(300, 100, 1, 2), BBox(50, 450, 50, 100)} : FindZoneForBoundingBox(b)
RegistryGetAll == GetAllZones
RegistryModify ==
    /\ call.op = "get_all_zones"
    /\ \E l \in {<<>>, Append(ret.list, Yard)} : ModifyReturnedList(l)
RegistryFrame ==
    /\ Len(frame_log) < MaxAnalyses
    /\ \E result \in {AnalysisResult(FALSE, Listed(<<Detection(BBox(50, 450, 50, 100), 900)>>),
                                     Absent, Absent),
                      AnalysisResult(FALSE, Listed(<<Detection(BBox(60, 450, 50, 100), 1500)>>),
                                     Absent, Absent)},
          f \in 0..MaxFrame : AnalyzeFrame(result, "frame.jpg", f)

NextRegistry ==
    \/ RegistryAdd
    \/ RegistryPoint
    \/ RegistryBox
    \/ RegistryGetAll
    \/ RegistryModify
    \/ RegistryFrame

SpecRegistry == InitStore /\ [][NextRegistry]_vars

(***************************************************************************)
(* C25.  Zones are immutable once registered: find_zone_for_point,         *)
(* find_zone_for_bounding_box, get_all_zones and analyze_frame leave the   *)
(* registry's sequence of zones and every zone's attributes as they were,  *)
(* add_zone only appends at the end, and modifying the list returned by    *)
(* get_all_zones does not alter the registry.                              *)
(***************************************************************************)
C25_Step ==
    /\ call'.op \in {"find_zone_for_point", "find_zone_for_bounding_box", "get_all_zones",
                     "analyze_frame", "modify_returned_list"} => zones' = zones
    /\ call'.op = "get_all_zones" => ret'.list = zones
    /\ call'.op = "add_zone" =>
         \/ zones' = zones
         \/ /\ Len(zones') = Len(zones) + 1
            /\ SubSeq(zones', 1, Len(zones)) = zones

InCheckout == BBox(240, 100, 50, 100)
DeepInCheckout == BBox(200, 100, 50, 100)
InElectronics == BBox(300, 150, 50, 100)
InAisle == BBox(255, 200, 50, 100)

LoiterResults ==
    {AnalysisResult(FALSE, Listed(<<Detection(b, 900)>>), Absent, Absent) :
        b \in {InCheckout, DeepInCheckout, InElectronics, InAisle}}
      \cup {AnalysisResult(FALSE, Listed(<<Detection(InAisle, 900),
                                            Detection(DeepInCheckout, 950)>>),
                            Absent, Absent),
            AnalysisResult(FALSE, Absent, Absent, Absent)}

LoiterFrame ==
    /\ Len(frame_log) < MaxAnalyses
    /\ \E result \in LoiterResults, f \in 0..MaxFrame : AnalyzeFrame(result, "frame.jpg", f)

NextLoiter == LoiterFrame

SpecLoiter == InitStore /\ [][NextLoiter]_vars

\* the number of positions at the end of a track's history that lie in zone
RECURSIVE C26_Run(_, _)
C26_Run(history, zone) ==
    IF history = <<>> THEN 0
    ELSE IF find_zone_for_bounding_box(zones, history[Len(history)]) # zone THEN 0
    ELSE 1 + C26_Run(SubSeq(history, 1, Len(history) - 1), zone)

\* the frames the person of a track has been in zone without a break, up to
\* the track's last frame; a history that lies in the zone throughout
\* counts back to the track's first frame
C26_FramesInZone(track, zone) ==
    IF C26_Run(track.position_history, zone) = Len(track.position_history)
      THEN track.last_frame - track.first_frame
      ELSE C26_Run(track.position_history, zone) - 1

(***************************************************************************)
(* C26.  A LOITERING alert naming zone Z is produced for a person only     *)
(* when the person has been inside Z for more than Z.max_loiter_seconds:   *)
(* the frames in which the person was tracked in another zone or in no     *)
(* zone do not count.                                                      *)
(***************************************************************************)
C26_LoiteringOnlyAfterStayInZone ==
    FrameOk =>
        \A i \in 1..Len(FramePeople) :
            LET zone == ZoneOf(FramePeople[i])
            IN  \A k \in AlertsAbout(ret.alerts, "LOITERING", FramePeople[i].bounding_box) :
                    /\ ret.alerts[k].location = zone.name
                    /\ C26_FramesInZone(TrackOf(i), zone) > 30 * zone.max_loiter_seconds

\* a person tracked in the electronics display on frame 0 and at the
\* checkout counter on frame 1 gets a LOITERING alert for the checkout
\* counter, whose limit is 0 s, in the frame in which the person entered it
C26_LoiteringAfterFramesElsewhere ==
    /\ FrameOk
    /\ call.frame_number = 1
    /\ Len(FramePeople) = 1
    /\ ret.tracked[1].matched
    /\ TrackOf(1).position_history = <<InElectronics, InCheckout>>
    /\ ZoneOf(FramePeople[1]).name = "Checkout_Counter"
    /\ AlertsAbout(ret.alerts, "LOITERING", InCheckout) # {}
    /\ \A k \in AlertsAbout(ret.alerts, "LOITERING", InCheckout) :
         ret.alerts[k].location = "Checkout_Counter"

(***************************************************************************)
(* C27.  After every analyze_frame call, the alerts appended to the store  *)
(* during the call are exactly the alerts of the returned list, in the     *)
(* same order; in particular a call that a failure makes return the empty  *)
(* list has added no alert to the store.  (The store stays below its cap   *)
(* of 100 here, so appending drops nothing.)                               *)
(***************************************************************************)
C27_Step ==
    call'.op = "analyze_frame" =>
        /\ ret'.kind = "alerts"
        /\ recent_alerts' = recent_alerts \o ret'.alerts

C27_StoredDuringCallIsReturned == [][C27_Step]_vars

\* a frame that failed on its second person returned the empty list, and
\* the store ends with the RESTRICTED_AREA_VIOLATION alert of its first
C27_StoredButNotReturned ==
    /\ FrameDone
    /\ ret.kind = "alerts"
    /\ ret.caught
    /\ ret.alerts = <<>>
    /\ Len(FramePeople) = 2
    /\ recent_alerts # <<>>
    /\ ret.made # <<>>
    /\ recent_alerts[Len(recent_alerts)].alert_type = "RESTRICTED_AREA_VIOLATION"
    /\ recent_alerts[Len(recent_alerts)].bounding_boxes = <<FramePeople[1].bounding_box>>
    /\ recent_alerts[Len(recent_alerts)] = ret.made[Len(ret.made)]

(***************************************************************************)
(* VideoProcessor._process_frames: the loop reads the frames of a video    *)
(* one by one and hands every frame whose number is a multiple of          *)
(* FRAME_SKIP_INTERVAL to analyze_frame, with that number.  call holds the *)
(* frame of the last iteration, so the loop's frame_num is one more.       *)
(***************************************************************************)
FRAME_SKIP_INTERVAL == 30

\* total_frames of the video
MaxVideoFrames == 62

frame_num == IF call = NoCall THEN 0 ELSE call.frame_number + 1

\* what the vision service sees in a frame: a shopper standing at one spot
\* of the checkout counter, a shopper in the aisle, or nobody
VideoResults ==
    {AnalysisResult(FALSE, Listed(<<Detection(InCheckout, 900)>>), Absent, Absent),
     AnalysisResult(FALSE, Listed(<<Detection(InAisle, 900)>>), Absent, Absent),
     AnalysisResult(FALSE, Absent, Absent, Absent)}

\* an iteration on a frame that is processed: _process_single_frame
ProcessSingleFrame ==
    /\ frame_num < MaxVideoFrames
    /\ frame_num % FRAME_SKIP_INTERVAL = 0
    /\ \E result \in VideoResults : AnalyzeFrame(result, "temp_frame.jpg", frame_num)

\* an iteration on a frame that is skipped: only frame_num advances
SkipFrame ==
    /\ frame_num < MaxVideoFrames
    /\ frame_num % FRAME_SKIP_INTERVAL # 0
    /\ call' = [op |-> "read", frame_number |-> frame_num]
    /\ ret' = NoRet
    /\ UNCHANGED <<tracked_people, next_person_id, recent_alerts, now, zones,
                   issued_ids, created_alerts, frame_log>>

NextVideo == ProcessSingleFrame \/ SkipFrame

SpecVideo == InitStore /\ [][NextVideo]_vars

\* the loop runs on until cap.read() finds no further frame
FairSpecVideo == SpecVideo /\ WF_vars(NextVideo)

\* the tracker holds a track that covers frame f and never left InCheckout
C28_SeenAt(f) ==
    \E i \in 1..Len(tracked_people) :
        /\ tracked_people[i].first_frame <= f
        /\ f <= tracked_people[i].last_frame
        /\ \A k \in 1..Len(tracked_people[i].position_history) :
             tracked_people[i].position_history[k] = InCheckout

\* the shopper stood at the checkout counter in the first two frames the
\* loop analysed: one second, with a limit of 0 s
C28_Stayed == C28_SeenAt(0) /\ C28_SeenAt(FRAME_SKIP_INTERVAL)

C28_Alerted ==
    \E k \in 1..Len(recent_alerts) :
        /\ recent_alerts[k].alert_type = "LOITERING"
        /\ recent_alerts[k].location = "Checkout_Counter"
        /\ recent_alerts[k].bounding_boxes = <<InCheckout>>

(***************************************************************************)
(* C28.  When the frames are analysed on VideoProcessor's schedule, a      *)
(* person who stays at the same position inside a zone with                *)
(* alert_on_loitering for longer than the zone's max_loiter_seconds        *)
(* eventually gets a LOITERING alert.                                      *)
(***************************************************************************)
C28_StayingPersonEventuallyAlerted == C28_Stayed ~> C28_Alerted

\* the video is through: the shopper stood at the checkout counter in all
\* three frames analysed (0, 30 and 60), each frame opened a new track, and
\* the store holds no alert
C28_StayedUnalerted ==
    /\ frame_num >= 2 * FRAME_SKIP_INTERVAL + 1
    /\ C28_SeenAt(0)
    /\ C28_SeenAt(FRAME_SKIP_INTERVAL)
    /\ C28_SeenAt(2 * FRAME_SKIP_INTERVAL)
    /\ Len(tracked_people) = 3
    /\ recent_alerts = <<>>

(***************************************************************************)
(* track_person called with frame numbers in any order: repeated, going    *)
(* down, negative.                                                         *)
(***************************************************************************)
MaxAnyFrame == 4

AnyFrameTrack ==
    \E f \in (-1)..MaxAnyFrame : TrackPerson(BBox(100, 100, 50, 100), f)

NextAnyFrame == AnyFrameTrack

SpecAnyFrame == Init /\ [][NextAnyFrame]_vars

(***************************************************************************)
(* C29.  After any sequence of track_person calls, whatever their frame    *)
(* numbers, every track has first_frame <= last_frame and a history of     *)
(* min(5, last_frame - first_frame + 1) positions; a call that creates a   *)
(* track gives it last_frame = first_frame and a call that matches one     *)
(* raises its last_frame - first_frame by one and leaves the other tracks  *)
(* alone, so that last_frame - first_frame counts the matches since the    *)
(* track's creation; the dwell time of the person just tracked, evaluated  *)
(* at the frame of the call, is never negative.                            *)
(***************************************************************************)
C29_Span(track) == track.last_frame - track.first_frame

C29_Shape ==
    \A i \in 1..Len(tracked_people) :
        /\ tracked_people[i].first_frame <= tracked_people[i].last_frame
        /\ Len(tracked_people[i].position_history)
             = Min2(POSITION_HISTORY_SIZE, C29_Span(tracked_people[i]) + 1)

C29_Step ==
    call'.op = "track_person" =>
        LET n == Len(tracked_people)
        IN  /\ IF ret'.matched
                 THEN /\ Len(tracked_people') = n
                      /\ \A i \in 1..n :
                           IF tracked_people[i].person_id = ret'.person_id
                             THEN C29_Span(tracked_people'[i])
                                    = C29_Span(tracked_people[i]) + 1
                             ELSE tracked_people'[i] = tracked_people[i]
                 ELSE /\ Len(tracked_people') = n + 1
                      /\ SubSeq(tracked_people', 1, n) = tracked_people
                      /\ tracked_people'[n + 1].person_id = ret'.person_id
                      /\ C29_Span(tracked_people'[n + 1]) = 0
            /\ \A i \in 1..Len(tracked_people') :
                 tracked_people'[i].person_id = ret'.person_id =>
                     calculate_dwell_frames(tracked_people'[i], call'.frame_number) >= 0

C29_TrackSpanCountsMatches == []C29_Shape /\ [][C29_Step]_vars

\* the first track was matched five times in a row, from frame -1 to frame
\* 4, and holds five of its six positions; then frame -1 came again and
\* opened a second track
C29_Witness ==
    /\ call.op = "track_person"
    /\ call.frame_number = -1
    /\ ~ret.matched
    /\ Len(tracked_people) = 2
    /\ tracked_people[1].first_frame = -1
    /\ tracked_people[1].last_frame = 4
    /\ Len(tracked_people[1].position_history) = 5
    /\ tracked_people[2].first_frame = -1
    /\ tracked_people[2].last_frame = -1

(***************************************************************************)
(* C30.  Within one analyze_frame call no two detected people are given    *)
(* the same person id, also when both are within 100 pixels of the same    *)
(* track: a track matched in frame f has last_frame = f from then on and   *)
(* is not matched by another detection of frame f.                         *)
(***************************************************************************)
C30_DistinctIdsWithinFrame ==
    FrameDone =>
        \A i, j \in 1..Len(ret.tracked) :
            i # j => ret.tracked[i].person_id # ret.tracked[j].person_id

\* frame 1 shows the same box twice, 0 px from the one track of frame 0 in
\* the storage room: the first detection matched that track, the second
\* opened a new one
C30_Witness ==
    /\ FrameDone
    /\ call.frame_number = 1
    /\ Len(FramePeople) = 2
    /\ FramePeople[1].bounding_box = FramePeople[2].bounding_box
    /\ Len(ret.tracked) = 2
    /\ ret.tracked[1].matched
    /\ ~ret.tracked[2].matched
    /\ ret.tracked[1].person_id # ret.tracked[2].person_id
    /\ Len(tracked_people) = 3
    /\ TrackOf(1).first_frame = 0
    /\ TrackOf(1).last_frame = 1
    /\ TrackOf(2).first_frame = 1

====
